---- MODULE Spec2Model ----
(***************************************************************************)
(* Model of the numeric engine of the tiny LLM (src/src/lib/math.ts):      *)
(* vector primitives, initializeWeights, attentionHead, feedForward,       *)
(* forward and trainStep, driven by a session that owns one live Weights   *)
(* value.                                                                  *)
(*                                                                         *)
(* Numbers.  A JavaScript number is modelled on a fixed-point grid of      *)
(* 1/SCALE: a finite number x is Fin(round(x * SCALE)).  NaN is a value of *)
(* its own, and so is `undefined`, which is what reading an array element  *)
(* that does not exist yields; every arithmetic use of either gives NaN,   *)
(* as in JavaScript.  Arrays are 1-based sequences; the code's 0-based     *)
(* index i is position i + 1.                                              *)
(*                                                                         *)
(* Storage.  Every number[] of a Weights tree is a heap object with an     *)
(* address; a Weights tree holds the addresses, so that copying, sharing   *)
(* and in-place writes are visible.                                        *)
(***************************************************************************)
EXTENDS Integers, Sequences, FiniteSets, TLC

\* ------------------------------------------------------------------------
\* Bounds of the model
\* ------------------------------------------------------------------------
MaxEmbedDim == 2
MaxLayers == 2
MaxHeads == 2
MaxVocab == 2
MaxSeqLen == 2
RngStates == 3
MaxTextLen == 4
MaxVecLen == 3

\* ------------------------------------------------------------------------
\* Numbers
\* ------------------------------------------------------------------------
SCALE == 1000

Fin(x) == [fin |-> TRUE, v |-> x]
NaN == [fin |-> FALSE, v |-> 0]
Undefined == [fin |-> FALSE, v |-> 1]

Zero == Fin(0)
One == Fin(SCALE)

\* The array with the elements f[1], ..., f[n], each computed once
Arr(f) == f \o <<>>

\* The function f as a table, each f[a] computed once
Table(f) == f @@ <<>>

\* a[i] for a 0-based index i: undefined when the element does not exist
At(a, i) == IF (i + 1) \in DOMAIN a THEN a[i + 1] ELSE Undefined

Add(x, y) == IF x.fin /\ y.fin THEN Fin(x.v + y.v) ELSE NaN
Sub(x, y) == IF x.fin /\ y.fin THEN Fin(x.v - y.v) ELSE NaN
Mul(x, y) == IF x.fin /\ y.fin THEN Fin((x.v * y.v) \div SCALE) ELSE NaN
\* x / y; a zero divisor gives a non-finite number (Infinity or NaN in
\* JavaScript), which the grid does not tell apart from NaN
Div(x, y) == IF x.fin /\ y.fin /\ y.v # 0 THEN Fin((x.v * SCALE) \div y.v) ELSE NaN

RECURSIVE ISqrt(_)
ISqrt(n) ==
  IF n < 2 THEN n
  ELSE LET s == 2 * ISqrt(n \div 4)
       IN IF (s + 1) * (s + 1) <= n THEN s + 1 ELSE s

\* Math.sqrt
Sqrt(x) == IF x.fin /\ x.v >= 0 THEN Fin(ISqrt(x.v * SCALE)) ELSE NaN

\* Math.exp on the grid: exactly 1 at 0, exactly 0 below the underflow
\* threshold of a double (exp(x) = 0 for x < -745.2), positive and
\* increasing in between
Exp(x) ==
  IF ~x.fin THEN NaN
  ELSE IF x.v < -745 * SCALE THEN Zero
  ELSE IF x.v <= 0 THEN Fin((SCALE * SCALE) \div (SCALE - x.v))
  ELSE Fin(SCALE + x.v)

\* -Math.log(1e-10) = 23.026
LogFloor == Fin((23026 * SCALE) \div 1000)

\* -Math.log(p) on the grid for 0 < p, the inverse of Exp
NegLog(p) ==
  IF ~p.fin \/ p.v <= 0 THEN NaN
  ELSE IF p.v <= SCALE THEN Fin((SCALE * SCALE) \div p.v - SCALE)
  ELSE Fin(SCALE - p.v)

\* Math.max of two numbers: NaN if either is not a number
Max2(x, y) == IF x.fin /\ y.fin THEN (IF x.v >= y.v THEN x ELSE y) ELSE NaN

\* x > y as JavaScript compares: false when either side is NaN
Gt(x, y) == x.fin /\ y.fin /\ x.v > y.v

\* Sum of f[1..n] accumulated left to right from acc (Array.reduce)
RECURSIVE Reduce(_, _, _)
Reduce(f, n, acc) == IF n = 0 THEN acc ELSE Add(Reduce(f, n - 1, acc), f[n])

Sum(f) == Reduce(f, Len(f), Zero)

\* ------------------------------------------------------------------------
\* Vector primitives
\* ------------------------------------------------------------------------
\* Math.max(...x) for a non-empty x
RECURSIVE MaxOf(_, _)
MaxOf(x, n) == IF n = 1 THEN Max2(x[1], x[1]) ELSE Max2(MaxOf(x, n - 1), x[n])

\* softmax with the largest exponential as the divisor instead of the sum
softmax_OverLargest(x) ==
  LET maxVal == MaxOf(x, Len(x))
      expValues == Arr([i \in DOMAIN x |-> Exp(Sub(x[i], maxVal))])
  IN Arr([i \in DOMAIN x |-> Div(expValues[i], MaxOf(expValues, Len(expValues)))])

softmax(x) ==
  LET maxVal == MaxOf(x, Len(x))
      expValues == Arr([i \in DOMAIN x |-> Exp(Sub(x[i], maxVal))])
      sumExp == Sum(expValues)
  IN Arr([i \in DOMAIN x |-> Div(expValues[i], sumExp)])

dotProduct(a, b) == Sum(Arr([i \in DOMAIN a |-> Mul(a[i], At(b, i - 1))]))

matVecMul(matrix, vec) == Arr([r \in DOMAIN matrix |-> dotProduct(matrix[r], vec)])

vecAdd(a, b) == Arr([i \in DOMAIN a |-> Add(a[i], At(b, i - 1))])

relu(x) == Arr([i \in DOMAIN x |-> Max2(Zero, x[i])])

\* variance + 1e-5 is kept in units of 1/SCALE^2
layerNorm(x) ==
  LET n == Len(x)
      mean == Div(Sum(x), Fin(n * SCALE))
      sq == Arr([i \in DOMAIN x |->
               LET d == Sub(x[i], mean)
               IN IF d.fin THEN Fin(d.v * d.v) ELSE NaN])
      tot == Sum(sq)
      std == IF tot.fin /\ n > 0 THEN Fin(ISqrt(tot.v \div n + (SCALE * SCALE) \div 100000)) ELSE NaN
  IN Arr([i \in DOMAIN x |-> Div(Sub(x[i], mean), std)])

\* crossEntropyLoss with predicted[0] for predicted[targetIndex]
crossEntropyLoss_FirstIndex(predicted, targetIndex) ==
  LET prob == Max2(At(predicted, 0), Zero)
  IN IF prob.fin /\ prob.v = 0 THEN LogFloor ELSE NegLog(prob)

\* 1e-10 lies below the grid: a probability of 0 is floored to it
crossEntropyLoss(predicted, targetIndex) ==
  LET prob == Max2(At(predicted, targetIndex), Zero)
  IN IF prob.fin /\ prob.v = 0 THEN LogFloor ELSE NegLog(prob)

\* ------------------------------------------------------------------------
\* Math.random
\* ------------------------------------------------------------------------
\* The generator is a hidden state s; the k-th call after state s returns
\* Random(s, k) in [0, 1), and n calls leave the state Advance(s, n).
Random(s, k) == Fin((((s + k) % RngStates) * SCALE) \div RngStates)

Advance(s, n) == (s + n) % RngStates

\* (Math.random() * 2 - 1) * scale, the k-th call after state s
RandomEntry(s, k, scale) ==
  Mul(Sub(Mul(Random(s, k), Fin(2 * SCALE)), One), scale)

\* o calls of Math.random precede the first entry
randomMatrix(rows, cols, scale, s, o) ==
  Arr([r \in 1..rows |-> Arr([c \in 1..cols |-> RandomEntry(s, o + (r - 1) * cols + c, scale)])])

randomVector(size, scale, s, o) ==
  Arr([c \in 1..size |-> RandomEntry(s, o + c, scale)])

\* ------------------------------------------------------------------------
\* Weights: values, references and the heap
\* ------------------------------------------------------------------------
Null == [null |-> TRUE]

\* headDim rounded up instead of down
HeadDim_RoundedUp(config) ==
  (config.embedDim + config.numHeads - 1) \div config.numHeads

\* Math.floor(embedDim / numHeads)
HeadDim(config) == config.embedDim \div config.numHeads

\* Number of Math.random calls of one layer and of the whole initialization
LayerDraws(config) ==
  LET e == config.embedDim
  IN config.numHeads * 3 * e * HeadDim(config) + e * (e * 2) + e * 2 + (e * 2) * e + e

InitDraws(vocabSize, config) ==
  vocabSize * config.embedDim + config.numLayers * LayerDraws(config)
    + config.embedDim * vocabSize + vocabSize

\* The Weights value initializeWeights builds when the generator is in
\* state s: the numbers, row by row, in the order the code draws them
initializeWeights(vocabSize, config, s) ==
  LET embedDim == config.embedDim
      numLayers == config.numLayers
      numHeads == config.numHeads
      headDim == HeadDim(config)
      tenth == Fin(SCALE \div 10)
      half == Fin(SCALE \div 2)
      mat == embedDim * headDim
      layerAt(l) == vocabSize * embedDim + (l - 1) * LayerDraws(config)
      ffnAt(l) == layerAt(l) + numHeads * 3 * mat
      outAt == vocabSize * embedDim + numLayers * LayerDraws(config)
  IN [embeddings |-> randomMatrix(vocabSize, embedDim, half, s, 0),
      layers |-> Arr([l \in 1..numLayers |->
        [attention |-> [heads |-> Arr([h \in 1..numHeads |->
           [Wq |-> randomMatrix(embedDim, headDim, tenth, s, layerAt(l) + (h - 1) * 3 * mat),
            Wk |-> randomMatrix(embedDim, headDim, tenth, s, layerAt(l) + (h - 1) * 3 * mat + mat),
            Wv |-> randomMatrix(embedDim, headDim, tenth, s, layerAt(l) + (h - 1) * 3 * mat + 2 * mat)]])],
         ffn |->
           [W1 |-> randomMatrix(embedDim, embedDim * 2, tenth, s, ffnAt(l)),
            b1 |-> randomVector(embedDim * 2, tenth, s, ffnAt(l) + embedDim * (embedDim * 2)),
            W2 |-> randomMatrix(embedDim * 2, embedDim, tenth, s,
                                ffnAt(l) + embedDim * (embedDim * 2) + embedDim * 2),
            b2 |-> randomVector(embedDim, tenth, s,
                                ffnAt(l) + embedDim * (embedDim * 2) + embedDim * 2
                                  + (embedDim * 2) * embedDim)]]]),
      output |->
        [W |-> randomMatrix(embedDim, vocabSize, tenth, s, outAt),
         b |-> randomVector(vocabSize, tenth, s, outAt + embedDim * vocabSize)]]

\* The address of a number[]: the tree it was created for (id), the field
\* it was created as, and its layer, head and row (0 where there is none)
Addr(id, field, l, h, i) == <<id, field, l, h, i>>

Rows(id, field, l, h, m) == Arr([i \in DOMAIN m |-> Addr(id, field, l, h, i)])

\* A Weights tree of fresh arrays, one per number[] of the value w
NewTree(id, w) ==
  [embeddings |-> Rows(id, "embeddings", 0, 0, w.embeddings),
   layers |-> Arr([l \in DOMAIN w.layers |->
     [attention |-> [heads |-> Arr([h \in DOMAIN w.layers[l].attention.heads |->
        [Wq |-> Rows(id, "Wq", l, h, w.layers[l].attention.heads[h].Wq),
         Wk |-> Rows(id, "Wk", l, h, w.layers[l].attention.heads[h].Wk),
         Wv |-> Rows(id, "Wv", l, h, w.layers[l].attention.heads[h].Wv)]])],
      ffn |->
        [W1 |-> Rows(id, "W1", l, 0, w.layers[l].ffn.W1),
         b1 |-> Addr(id, "b1", l, 0, 0),
         W2 |-> Rows(id, "W2", l, 0, w.layers[l].ffn.W2),
         b2 |-> Addr(id, "b2", l, 0, 0)]]]),
   output |->
     [W |-> Rows(id, "W", 0, 0, w.output.W),
      b |-> Addr(id, "b", 0, 0, 0)]]

Range(f) == {f[i] : i \in DOMAIN f}

\* Every number[] reachable from the tree t
Arrays(t) ==
  Range(t.embeddings)
    \cup UNION {UNION {Range(t.layers[l].attention.heads[h].Wq)
                         \cup Range(t.layers[l].attention.heads[h].Wk)
                         \cup Range(t.layers[l].attention.heads[h].Wv)
                       : h \in DOMAIN t.layers[l].attention.heads}
                  \cup Range(t.layers[l].ffn.W1) \cup Range(t.layers[l].ffn.W2)
                  \cup {t.layers[l].ffn.b1, t.layers[l].ffn.b2}
                : l \in DOMAIN t.layers}
    \cup Range(t.output.W) \cup {t.output.b}

Deref(h, rows) == Arr([i \in DOMAIN rows |-> h[rows[i]]])

\* The value of the tree t in the heap h
Load(h, t) ==
  [embeddings |-> Deref(h, t.embeddings),
   layers |-> Arr([l \in DOMAIN t.layers |->
     [attention |-> [heads |-> Arr([k \in DOMAIN t.layers[l].attention.heads |->
        [Wq |-> Deref(h, t.layers[l].attention.heads[k].Wq),
         Wk |-> Deref(h, t.layers[l].attention.heads[k].Wk),
         Wv |-> Deref(h, t.layers[l].attention.heads[k].Wv)]])],
      ffn |->
        [W1 |-> Deref(h, t.layers[l].ffn.W1),
         b1 |-> h[t.layers[l].ffn.b1],
         W2 |-> Deref(h, t.layers[l].ffn.W2),
         b2 |-> h[t.layers[l].ffn.b2]]]]),
   output |->
     [W |-> Deref(h, t.output.W),
      b |-> h[t.output.b]]]

\* The number[] that the value w holds where the address a was created
Content(w, a) ==
  LET field == a[2]
      l == a[3]
      k == a[4]
      i == a[5]
  IN CASE field = "embeddings" -> w.embeddings[i]
       [] field = "Wq" -> w.layers[l].attention.heads[k].Wq[i]
       [] field = "Wk" -> w.layers[l].attention.heads[k].Wk[i]
       [] field = "Wv" -> w.layers[l].attention.heads[k].Wv[i]
       [] field = "W1" -> w.layers[l].ffn.W1[i]
       [] field = "b1" -> w.layers[l].ffn.b1
       [] field = "W2" -> w.layers[l].ffn.W2[i]
       [] field = "b2" -> w.layers[l].ffn.b2
       [] field = "W" -> w.output.W[i]
       [] field = "b" -> w.output.b

\* The heap h after the arrays of t that it does not hold yet are created
\* with the numbers of w
Allocate(h, t, w) ==
  Table([a \in DOMAIN h \cup Arrays(t) |-> IF a \in DOMAIN h THEN h[a] ELSE Content(w, a)])

\* The heap h without the arrays that are not in keep (garbage)
Collect(h, keep) == Table([a \in DOMAIN h \cap keep |-> h[a]])

\* ------------------------------------------------------------------------
\* Forward pass
\* ------------------------------------------------------------------------
\* The causal mask -1e9, at the low end of the grid: like -1e9 it lies far
\* below every score and below the underflow threshold of Exp
MaskScore == Fin(-(10 ^ 9))

\* Single attention head on a non-empty input sequence
attentionHead(input, head) ==
  LET seqLen == Len(input)
      \* the weighted sum of values, from the scores
      Weighted(V, scores) ==
        [scores |-> scores,
         output |-> Arr([i \in 1..seqLen |->
                      Arr([k \in DOMAIN V[1] |->
                         Sum(Arr([j \in 1..seqLen |->
                                Mul(scores[i][j], At(V[j], k - 1))]))])])]
      \* the scores, from Q, K and V
      Attend(Q, K, V) ==
        LET dk == Len(Q[1])
            scale == Sqrt(Fin(dk * SCALE))
        IN Weighted(V, Arr([i \in 1..seqLen |->
                         softmax(Arr([j \in 1..seqLen |->
                                    IF j > i THEN MaskScore
                                    ELSE Div(dotProduct(Q[i], K[j]), scale)]))]))
  IN Attend(Arr([i \in DOMAIN input |-> matVecMul(head.Wq, input[i])]),
            Arr([i \in DOMAIN input |-> matVecMul(head.Wk, input[i])]),
            Arr([i \in DOMAIN input |-> matVecMul(head.Wv, input[i])]))

feedForward(input, ffn) ==
  LET hidden == relu(vecAdd(matVecMul(ffn.W1, input), ffn.b1))
  IN vecAdd(matVecMul(ffn.W2, hidden), ffn.b2)

\* headOut[i][d % headOut[i].length] / headOutputs.length; with an empty
\* headOut[i] the index is NaN and the element undefined
HeadShare(headOut, i, d, count) ==
  LET n == Len(headOut[i])
  IN Div(IF n = 0 THEN Undefined ELSE At(headOut[i], d % n), Fin(count * SCALE))

\* One iteration of the loop over weights.layers: the layer's entry of
\* layerOutputs and the next value of `current`
LayerStep(current, layer) ==
  LET heads == layer.attention.heads
      \* residual + layer norm after the feed-forward network
      Residual(allScores, attentionOutput, afterAttention, ffnOutput) ==
        [current |-> Arr([i \in DOMAIN current |->
                        layerNorm(vecAdd(afterAttention[i], ffnOutput[i]))]),
         out |-> [attentionScores |-> allScores,
                  attentionOutput |-> attentionOutput,
                  ffnOutput |-> ffnOutput]]
      \* the feed-forward network on every position
      FeedForward(allScores, attentionOutput, afterAttention) ==
        Residual(allScores, attentionOutput, afterAttention,
                 Arr([i \in DOMAIN current |-> feedForward(afterAttention[i], layer.ffn)]))
      \* residual + layer norm after attention
      AfterAttention(allScores, attentionOutput) ==
        FeedForward(allScores, attentionOutput,
                    Arr([i \in DOMAIN current |->
                       layerNorm(vecAdd(current[i], attentionOutput[i]))]))
      \* the heads' outputs combined by averaging
      Combine(allScores, headOutputs) ==
        AfterAttention(allScores,
          Arr([i \in DOMAIN current |->
             Arr([d \in DOMAIN current[1] |->
                Sum(Arr([h \in DOMAIN heads |->
                       HeadShare(headOutputs[h], i, d - 1, Len(headOutputs))]))])]))
      \* run[h] is what attentionHead returns for head h
      Heads(run) ==
        Combine(Arr([h \in DOMAIN heads |-> run[h].scores]),
                Arr([h \in DOMAIN heads |-> run[h].output]))
  IN Heads(Arr([h \in DOMAIN heads |-> attentionHead(current, heads[h])]))

\* `current` after the first n layers, and their layerOutputs
RECURSIVE Layers(_, _, _)
Layers(embedded, layers, n) ==
  IF n = 0 THEN [current |-> embedded, layerOutputs |-> <<>>]
  ELSE LET Push(before, step) ==
             [current |-> step.current,
              layerOutputs |-> Append(before.layerOutputs, step.out)]
           Step(before) == Push(before, LayerStep(before.current, layers[n]))
       IN Step(Layers(embedded, layers, n - 1))

\* The loop with `probabilities[i] >= maxProb`: the last of several equal
\* largest entries wins
RECURSIVE ArgMax_LastWins(_, _)
ArgMax_LastWins(probabilities, n) ==
  IF n = 0 THEN [maxProb |-> Fin(-SCALE), predictedToken |-> 0]
  ELSE LET before == ArgMax_LastWins(probabilities, n - 1)
       IN IF probabilities[n].fin /\ before.maxProb.fin
               /\ probabilities[n].v >= before.maxProb.v
          THEN [maxProb |-> probabilities[n], predictedToken |-> n - 1]
          ELSE before

\* The first index of the largest probability, found as the loop finds it:
\* after the first n entries, [maxProb, predictedToken]
RECURSIVE ArgMax(_, _)
ArgMax(probabilities, n) ==
  IF n = 0 THEN [maxProb |-> Fin(-SCALE), predictedToken |-> 0]
  ELSE LET before == ArgMax(probabilities, n - 1)
       IN IF Gt(probabilities[n], before.maxProb)
          THEN [maxProb |-> probabilities[n], predictedToken |-> n - 1]
          ELSE before

\* No targetToken argument (undefined)
NoTarget == -1

\* The lookup with `weights.embeddings[t] ?? weights.embeddings[0]`: an id
\* without a row is read as id 0 instead of raising
embeddingLookup_UnknownAsFirst(inputTokens, w) ==
  [raised |-> FALSE,
   rows |-> Arr([p \in DOMAIN inputTokens |->
              IF (inputTokens[p] + 1) \in DOMAIN w.embeddings
              THEN w.embeddings[inputTokens[p] + 1]
              ELSE w.embeddings[1]])]

\* inputTokens.map((t) => [...weights.embeddings[t]]): spreading the row of
\* an id that has none (undefined) raises a TypeError
embeddingLookup(inputTokens, w) ==
  IF \E p \in DOMAIN inputTokens : (inputTokens[p] + 1) \notin DOMAIN w.embeddings
  THEN [raised |-> TRUE]
  ELSE [raised |-> FALSE,
        rows |-> Arr([p \in DOMAIN inputTokens |-> w.embeddings[inputTokens[p] + 1]])]

\* forward(inputTokens, weights, targetToken) on the value w of the weights.
\* With an empty inputTokens the first use of current[0] or of lastHidden
\* (undefined) raises a TypeError.
forward(inputTokens, w, targetToken) ==
  IF inputTokens = <<>>
  THEN [raised |-> TRUE]
  ELSE
    LET seqLen == Len(inputTokens)
        Result(embedded, layerOutputs, logits, probabilities) ==
          [raised |-> FALSE,
           inputTokens |-> inputTokens,
           embeddings |-> embedded,
           layerOutputs |-> layerOutputs,
           logits |-> logits,
           probabilities |-> probabilities,
           predictedToken |-> ArgMax(probabilities, Len(probabilities)).predictedToken,
           loss |-> IF targetToken # NoTarget
                    THEN crossEntropyLoss(probabilities, targetToken)
                    ELSE Undefined,
           targetToken |-> targetToken]
        Probabilities(embedded, layerOutputs, logits) ==
          Result(embedded, layerOutputs, logits, softmax(logits))
        \* through = [current, layerOutputs] after the loop over the layers
        Logits(embedded, through) ==
          LET lastHidden == through.current[seqLen]
          IN Probabilities(embedded, through.layerOutputs,
                           vecAdd(matVecMul(w.output.W, lastHidden), w.output.b))
        Embedded(embedded) ==
          Logits(embedded, Layers(embedded, w.layers, Len(w.layers)))
        Looked(current) ==
          IF current.raised THEN [raised |-> TRUE] ELSE Embedded(current.rows)
    IN Looked(embeddingLookup(inputTokens, w))

\* ------------------------------------------------------------------------
\* Training step
\* ------------------------------------------------------------------------
\* a[i] += x on the array at address a: an index past the end reads
\* undefined and lengthens the array
AddAt(h, a, i, x) ==
  LET row == h[a]
      n == IF i + 1 > Len(row) THEN i + 1 ELSE Len(row)
  IN Table([h EXCEPT ![a] = Arr([j \in 1..n |->
                         IF j = i + 1 THEN Add(At(row, i), x) ELSE At(row, j - 1)])])

\* copyWeights with `W: weights.output.W` for the output matrix: the rows
\* of the input tree are taken over instead of copied
copyWeights_SharedOutputW(id, h, t) ==
  LET w == Load(h, t)
      fresh == NewTree(id, w)
      newWeights == [fresh EXCEPT !.output.W = t.output.W]
  IN [tree |-> newWeights, heap |-> Allocate(h, newWeights, w)]

\* copyWeights with `b: weights.output.b`: the bias vector is taken over
copyWeights_SharedBias(id, h, t) ==
  LET w == Load(h, t)
      fresh == NewTree(id, w)
      newWeights == [fresh EXCEPT !.output.b = t.output.b]
  IN [tree |-> newWeights, heap |-> Allocate(h, newWeights, w)]

\* copyWeights with `Wq: head.Wk.map(...)`: every Wq is copied from Wk
copyWeights_WqFromWk(id, h, t) ==
  LET w == Load(h, t)
      newWeights == NewTree(id, w)
      wrong == [w EXCEPT !.layers =
                  Arr([l \in DOMAIN w.layers |->
                     [w.layers[l] EXCEPT !.attention.heads =
                        Arr([k \in DOMAIN w.layers[l].attention.heads |->
                           [w.layers[l].attention.heads[k] EXCEPT
                              !.Wq = w.layers[l].attention.heads[k].Wk]])]])]
  IN [tree |-> newWeights, heap |-> Allocate(h, newWeights, wrong)]

\* The copy of lines 408-429: a new tree (id) of new arrays holding the
\* numbers of the tree t
copyWeights(id, h, t) ==
  LET w == Load(h, t)
      newWeights == NewTree(id, w)
  IN [tree |-> newWeights, heap |-> Allocate(h, newWeights, w)]

\* for (d ...) newWeights.output.W[d][v] += learningRate * error * lastHidden[d],
\* from d on, with c = learningRate * error; output.W[d] of a row that
\* does not exist is undefined, and indexing it raises a TypeError
RECURSIVE OutputColumn(_, _, _, _, _, _)
OutputColumn(h, W, v, c, lastHidden, d) ==
  IF d = Len(lastHidden) THEN [heap |-> h, raised |-> FALSE]
  ELSE IF (d + 1) \notin DOMAIN W THEN [heap |-> h, raised |-> TRUE]
  ELSE OutputColumn(AddAt(h, W[d + 1], v, Mul(c, lastHidden[d + 1])),
                    W, v, c, lastHidden, d + 1)

\* for (v ...) { error; column v of output.W; output.b[v] }, from v on
RECURSIVE OutputUpdate(_, _, _, _, _, _, _)
OutputUpdate(h, newWeights, probs, targetToken, learningRate, lastHidden, v) ==
  IF v = Len(probs) THEN [heap |-> h, raised |-> FALSE]
  ELSE LET error == Sub(IF v = targetToken THEN One ELSE Zero, probs[v + 1])
           c == Mul(learningRate, error)
           column == OutputColumn(h, newWeights.output.W, v, c, lastHidden, 0)
       IN IF column.raised THEN column
          ELSE OutputUpdate(AddAt(column.heap, newWeights.output.b, v, c),
                            newWeights, probs, targetToken, learningRate, lastHidden, v + 1)

\* learningRate * (Math.random() - 0.5) * 0.1, the k-th call after state s
Adjustment(learningRate, s, k) ==
  Mul(Mul(learningRate, Sub(Random(s, k), Fin(SCALE \div 2))), Fin(SCALE \div 10))

\* for (tokenId of inputTokens) for (d ...) embeddings[tokenId][d] += adjustment,
\* from position p of inputTokens on, after `drawn` calls of Math.random
RECURSIVE EmbeddingUpdate(_, _, _, _, _, _, _)
EmbeddingUpdate(h, newWeights, inputTokens, learningRate, s, p, drawn) ==
  IF p > Len(inputTokens) THEN [heap |-> h, raised |-> FALSE, drawn |-> drawn]
  ELSE IF (inputTokens[p] + 1) \notin DOMAIN newWeights.embeddings
  THEN [heap |-> h, raised |-> TRUE, drawn |-> drawn]
  ELSE LET a == newWeights.embeddings[inputTokens[p] + 1]
           n == Len(h[a])
           row == Arr([d \in 1..n |-> Add(h[a][d], Adjustment(learningRate, s, drawn + d))])
       IN EmbeddingUpdate(Table([h EXCEPT ![a] = row]), newWeights, inputTokens,
                          learningRate, s, p + 1, drawn + n)

\* trainStep(inputTokens, targetToken, weights, learningRate) in the heap h,
\* with id the identity of the tree it creates and s the state of
\* Math.random.  The record tells how the call left (returned or raised),
\* the heap it left, and the values it had computed by then: result, loss
\* and, once built, newWeights; drawn counts its calls of Math.random.
trainStep(inputTokens, targetToken, weights, learningRate, h, id, s) ==
  LET \* the embedding adjustments, after the output layer update `out`
      Embeddings(result, newWeights, out) ==
        LET Left(emb) ==
              [outcome |-> IF emb.raised THEN "raised" ELSE "returned",
               built |-> TRUE, heap |-> emb.heap, newWeights |-> newWeights,
               loss |-> result.loss, result |-> result, drawn |-> emb.drawn]
        IN Left(EmbeddingUpdate(out.heap, newWeights, inputTokens,
                                learningRate, s, 1, 0))
      \* the output layer update, on the copy
      Output(result, copy) ==
        LET loss == result.loss
            newWeights == copy.tree
            probs == result.probabilities
            lastLayerIdx == Len(result.layerOutputs) - 1
        IN IF lastLayerIdx < 0
           THEN \* result.layerOutputs[-1] is undefined: TypeError
                [outcome |-> "raised", built |-> TRUE, heap |-> copy.heap,
                 newWeights |-> newWeights, loss |-> loss, result |-> result, drawn |-> 0]
           ELSE
             LET lastHidden ==
                   result.layerOutputs[lastLayerIdx + 1].ffnOutput[Len(inputTokens)]
                 Updated(out) ==
                   IF out.raised
                   THEN [outcome |-> "raised", built |-> TRUE, heap |-> out.heap,
                         newWeights |-> newWeights, loss |-> loss, result |-> result,
                         drawn |-> 0]
                   ELSE Embeddings(result, newWeights, out)
             IN Updated(OutputUpdate(copy.heap, newWeights, probs, targetToken,
                                     learningRate, lastHidden, 0))
      \* result is what forward returned or that it raised
      Train(result) ==
        IF result.raised
        THEN [outcome |-> "raised", built |-> FALSE, heap |-> h, newWeights |-> Null,
              loss |-> Undefined, result |-> result, drawn |-> 0]
        ELSE Output(result, copyWeights(id, h, weights))
  IN Train(forward(inputTokens, Load(h, weights), targetToken))

\* ------------------------------------------------------------------------
\* Text and vocabulary
\* ------------------------------------------------------------------------
\* A string is a sequence of pieces.  A piece is one character or the
\* letter run "constructor", the name of a property that every object
\* inherits from Object.prototype.
Whitespace == {" "}

\* The characters of /[.,!?]/
Punctuation == {".", ",", "!", "?"}

\* String.prototype.toLowerCase, piece by piece
LowerPiece(c) == IF c = "A" THEN "a" ELSE c

toLowerCase(s) == Arr([i \in DOMAIN s |-> LowerPiece(s[i])])

\* replace(/[.,!?]/g, "")
StripPunctuation(s) == SelectSeq(s, LAMBDA c : c \notin Punctuation)

\* split(/\s+/) of the first n pieces of s: the words so far, the last one
\* still open, and whether the piece before was whitespace
RECURSIVE SplitUpTo(_, _)
SplitUpTo(s, n) ==
  IF n = 0 THEN [words |-> << <<>> >>, inSpace |-> FALSE]
  ELSE LET Take(before) ==
             IF s[n] \in Whitespace
             THEN [words |-> IF before.inSpace THEN before.words
                             ELSE Append(before.words, <<>>),
                   inSpace |-> TRUE]
             ELSE [words |-> [before.words EXCEPT
                                ![Len(before.words)] = Append(@, s[n])],
                   inSpace |-> FALSE]
       IN Take(SplitUpTo(s, n - 1))

\* split(/\s+/): leading or trailing whitespace leaves an empty word
SplitWhitespace(s) == SplitUpTo(s, Len(s)).words

\* The property names that a vocabulary object inherits
InheritedKeys == {<<"constructor">>}

\* A value that is not a number (an inherited property's object, or
\* undefined): as a token id it equals no id and indexes no row
NonNumber == -2

\* A vocabulary is the list of its own entries <<word, id>> in insertion
\* order (the order of Object.entries), no word twice
OwnKeys(vocabulary) == {vocabulary[e][1] : e \in DOMAIN vocabulary}

OwnIds(vocabulary) == {vocabulary[e][2] : e \in DOMAIN vocabulary}

\* word in vocabulary: own or inherited
HasProperty(vocabulary, word) ==
  word \in OwnKeys(vocabulary) \/ word \in InheritedKeys

\* vocabulary[word]
GetProperty(vocabulary, word) ==
  IF word \in OwnKeys(vocabulary)
  THEN vocabulary[CHOOSE e \in DOMAIN vocabulary : vocabulary[e][1] = word][2]
  ELSE NonNumber

tokenize(sentence, vocabulary) ==
  LET Ids(words) == Arr([i \in DOMAIN words |-> GetProperty(vocabulary, words[i])])
  IN Ids(SelectSeq(SplitWhitespace(StripPunctuation(toLowerCase(sentence))),
                   LAMBDA word : HasProperty(vocabulary, word)))

\* `<${tokenId}>`
Placeholder(tokenId) == <<"<", ToString(tokenId), ">">>

\* The index of the first entry with the id, 0 if there is none
\* (Object.entries(vocabulary).find)
RECURSIVE FindEntry(_, _, _)
FindEntry(vocabulary, tokenId, e) ==
  IF e > Len(vocabulary) THEN 0
  ELSE IF vocabulary[e][2] = tokenId THEN e
  ELSE FindEntry(vocabulary, tokenId, e + 1)

\* detokenize as Object.keys(vocabulary)[tokenId] ?? `<${tokenId}>`: the
\* word at the position of the id instead of the word with the id
detokenize_ByPosition(tokenId, vocabulary) ==
  IF (tokenId + 1) \in DOMAIN vocabulary THEN vocabulary[tokenId + 1][1]
  ELSE Placeholder(tokenId)

detokenize(tokenId, vocabulary) ==
  LET Found(e) == IF e = 0 THEN Placeholder(tokenId) ELSE vocabulary[e][1]
  IN Found(FindEntry(vocabulary, tokenId, 1))

\* The words of a sentence as VocabularyBuilder.allWords and
\* ModelPanel.vocabulary take them
SentenceWords(sentence) ==
  SplitWhitespace(StripPunctuation(toLowerCase(sentence)))

\* The words of the first n sentences of a corpus, in order
RECURSIVE CorpusWords(_, _)
CorpusWords(corpus, n) ==
  IF n = 0 THEN <<>>
  ELSE CorpusWords(corpus, n - 1) \o SentenceWords(corpus[n])

\* The order of Array.prototype.sort on strings, for lower-case words
PieceRank(c) ==
  CASE c = "a" -> 1 [] c = "b" -> 2 [] c = "constructor" -> 3 [] OTHER -> 0

RECURSIVE WordLess(_, _)
WordLess(a, b) ==
  IF a = <<>> THEN b # <<>>
  ELSE IF b = <<>> THEN FALSE
  ELSE IF PieceRank(Head(a)) # PieceRank(Head(b))
       THEN PieceRank(Head(a)) < PieceRank(Head(b))
  ELSE WordLess(Tail(a), Tail(b))

RECURSIVE SortWords(_)
SortWords(words) ==
  IF words = {} THEN <<>>
  ELSE LET First(w) == <<w>> \o SortWords(words \ {w})
       IN First(CHOOSE w \in words : \A v \in words \ {w} : WordLess(w, v))

\* The loop both components use to give ids: each of the first n words
\* that is not `in` the vocabulary yet gets the next id
RECURSIVE AssignRemaining(_, _, _)
AssignRemaining(words, n, start) ==
  IF n = 0 THEN start
  ELSE LET Give(done) ==
             IF HasProperty(done.vocabulary, words[n]) THEN done
             ELSE [vocabulary |-> Append(done.vocabulary, <<words[n], done.id>>),
                   id |-> done.id + 1]
       IN Give(AssignRemaining(words, n - 1, start))

\* ModelPanel.vocabulary: ids from 0 in the order of first appearance in
\* the corpus; empty words are passed over
ModelPanelVocabulary(corpus) ==
  LET From(words) ==
        AssignRemaining(words, Len(words), [vocabulary |-> <<>>, id |-> 0]).vocabulary
  IN From(SelectSeq(CorpusWords(corpus, Len(corpus)), LAMBDA word : word # <<>>))

\* VocabularyBuilder.allWords: the non-empty words of the corpus, sorted
allWords(corpus) ==
  LET From(words) == SortWords({words[i] : i \in DOMAIN words} \ {<<>>})
  IN From(CorpusWords(corpus, Len(corpus)))

\* The words on the buttons of VocabularyBuilder: split without the
\* filter for empty words, lower-cased at the click
ButtonWords(corpus) ==
  UNION {LET Of(words) == {toLowerCase(words[i]) : i \in DOMAIN words}
         IN Of(SplitWhitespace(StripPunctuation(corpus[s]))) : s \in DOMAIN corpus}

\* The next id as the number of words plus one: ids from 1
nextTokenId_FromOne(vocabulary) == Len(vocabulary) + 1

\* Object.keys(vocabulary).length
nextTokenId(vocabulary) == Len(vocabulary)

allAssigned(corpus, vocabulary) ==
  LET Each(words) == \A i \in DOMAIN words : HasProperty(vocabulary, words[i])
  IN Each(allWords(corpus))

\* handleWordClick: the vocabulary it hands to onVocabularyChange, or the
\* same vocabulary when the word is `in` it already
handleWordClick(vocabulary, word) ==
  IF HasProperty(vocabulary, word) THEN vocabulary
  ELSE Append(vocabulary, <<word, nextTokenId(vocabulary)>>)

handleAutoAssign(corpus, vocabulary) ==
  LET From(words) ==
        AssignRemaining(words, Len(words),
                        [vocabulary |-> vocabulary, id |-> nextTokenId(vocabulary)]).vocabulary
  IN From(allWords(corpus))

\* ------------------------------------------------------------------------
\* The store's Model
\* ------------------------------------------------------------------------
\* The application keeps no numbers of its own: of a Weights value it
\* uses the shape, so a Weights value of the store is its shape.
NoLayerShape == [heads |-> 0, Wq |-> <<0, 0>>, W1 |-> <<0, 0>>, b1 |-> 0,
                 W2 |-> <<0, 0>>, b2 |-> 0]

\* The shape of initializeWeights(vocabSize, config): rows and columns of
\* every randomMatrix, entries of every randomVector
WeightsShape(vocabSize, config) ==
  [embeddings |-> <<vocabSize, config.embedDim>>,
   layers |-> config.numLayers,
   layer |-> IF config.numLayers = 0 THEN NoLayerShape
             ELSE [heads |-> config.numHeads,
                   Wq |-> <<config.embedDim, HeadDim(config)>>,
                   W1 |-> <<config.embedDim, config.embedDim * 2>>,
                   b1 |-> config.embedDim * 2,
                   W2 |-> <<config.embedDim * 2, config.embedDim>>,
                   b2 |-> config.embedDim],
   W |-> <<config.embedDim, vocabSize>>,
   b |-> vocabSize]

DEFAULT_CONFIG ==
  [embedDim |-> 8, numLayers |-> 3, numHeads |-> 2, learningRate |-> Fin(SCALE \div 100)]

\* Two sentences stand for the eight of DEFAULT_CORPUS: each starts with a
\* capital and ends with a full stop, words recur, and no word is empty or
\* the name of an inherited property
DEFAULT_CORPUS == << <<"A", " ", "b", ".">>, <<"b", " ", "a", ".">> >>

\* maxIterations (500 in createInitialModel)
MaxIterations == 2

createInitialModel ==
  [status |-> "idle",
   stage |-> 1,
   corpus |-> DEFAULT_CORPUS,
   vocabulary |-> <<>>,
   config |-> DEFAULT_CONFIG,
   weights |-> Null,
   trainingProgress |-> [iteration |-> 0, maxIterations |-> MaxIterations,
                         loss |-> Zero, lossHistory |-> <<>>]]

NoPage == [view |-> "none"]

\* localStorage.getItem returns null: nothing is stored under the key
NoItem == [item |-> "none"]

\* A number in JSON text: NaN, Infinity and undefined are written as null
stringifyNumber(x) == IF x.fin THEN x ELSE Null

\* JSON.stringify(model), as the value the text denotes.  Strings, finite
\* numbers, null, arrays and the own properties of objects are written as
\* they are; the numbers that may be other than finite are those of
\* trainingProgress (the entries of Weights are held as shapes only).
stringify(m) ==
  [item |-> "text",
   value |-> [m EXCEPT
     !.trainingProgress.loss = stringifyNumber(@),
     !.trainingProgress.lossHistory = Arr([i \in DOMAIN @ |-> stringifyNumber(@[i])])]]

\* storage.get: JSON.parse of the text, null when there is none
storageGet(item) == IF item = NoItem THEN Null ELSE item.value

\* saveModel that writes only when nothing is stored yet
saveModel_OnlyFirst(m, item) ==
  IF m = Null \/ item # NoItem THEN item ELSE stringify(m)

\* saveModel: storage.set(MODEL_KEY, model) when there is a model
saveModel(m, item) == IF m = Null THEN item ELSE stringify(m)

\* The model loadModel sets
loadModel(item) ==
  IF storageGet(item) # Null THEN storageGet(item) ELSE createInitialModel

\* ------------------------------------------------------------------------
\* The session: one live Weights value and the calls made on it
\* ------------------------------------------------------------------------
VARIABLES
  config,     \* the ModelConfig of the latest initializeWeights, or Null
  vocabSize,  \* its vocabSize
  weights,    \* the live Weights tree, or Null
  heap,       \* address -> number[]: the arrays of the live tree and, while
              \* a trainStep is being looked at, of the tree it built
  rng,        \* the state of Math.random
  call,       \* the engine call that has just left: its arguments, how it
              \* left and the values it computed; Idle between calls
  held,       \* an earlier forward call whose result the caller still holds
              \* (runStep holds `result` across its trainStep), and whether
              \* a trainStep has left since; Idle when none is held
  model,      \* the Model of the store (useModelStore); Null before
              \* loadModel has set it
  page,       \* the Training page on screen and the local state of the
              \* component it shows; NoPage when the engine is used alone
  localStorage \* what localStorage holds under the key "llm-model": the
              \* text last written, or NoItem

vars == <<config, vocabSize, weights, heap, rng, call, held, model, page, localStorage>>

LearningRates == {Fin(SCALE \div 10)}

Configs ==
  [embedDim : 1..MaxEmbedDim, numLayers : 0..MaxLayers, numHeads : 1..MaxHeads,
   learningRate : LearningRates]

TokenIds == 0..(MaxVocab - 1)

TokenSeqs == UNION {[1..n -> TokenIds] : n \in 1..MaxSeqLen}

EmptyHeap == [a \in {} |-> <<>>]

Idle == [op |-> "none"]

\* The smallest tree identity no array of h carries
FreshId(h) ==
  LET used == {a[1] : a \in DOMAIN h}
  IN CHOOSE i \in 1..(Cardinality(used) + 1) :
       i \notin used /\ \A j \in 1..(i - 1) : j \in used

Init ==
  /\ config = Null
  /\ vocabSize = 0
  /\ weights = Null
  /\ heap = EmptyHeap
  /\ rng \in 0..(RngStates - 1)
  /\ call = Idle
  /\ held = Idle
  /\ model = createInitialModel
  /\ page = NoPage
  /\ localStorage = NoItem

\* The caller replaces the live weights by initializeWeights(vs, cfg)
InitializeWeights(vs, cfg) ==
  /\ call = Idle
  /\ \E w \in {initializeWeights(vs, cfg, rng)} :
       \E tree \in {NewTree(1, w)} :
         /\ config' = cfg
         /\ vocabSize' = vs
         /\ weights' = tree
         /\ heap' = Allocate(EmptyHeap, tree, w)
         /\ rng' = Advance(rng, InitDraws(vs, cfg))
         /\ call' = [op |-> "initializeWeights", outcome |-> "returned"]
         /\ held' = Idle
  /\ UNCHANGED <<model, page, localStorage>>

\* Forward with one Math.random() per call added to the first entry of the
\* output bias before the pass (noise, as dropout would add)
Forward_WithNoise(inputTokens, targetToken) ==
  /\ call = Idle
  /\ weights # Null
  /\ \E w \in {Load(heap, weights)} :
       \E noisy \in {[w EXCEPT !.output.b =
                        Arr([v \in DOMAIN w.output.b |->
                           IF v = 1 THEN Add(w.output.b[v], Random(rng, 1))
                           ELSE w.output.b[v]])]} :
         \E result \in {forward(inputTokens, noisy, targetToken)} :
           /\ call' = [op |-> "forward", inputTokens |-> inputTokens,
                       targetToken |-> targetToken, weights |-> weights, pre |-> w,
                       outcome |-> IF result.raised THEN "raised" ELSE "returned",
                       result |-> result]
  /\ rng' = Advance(rng, 1)
  /\ UNCHANGED <<config, vocabSize, weights, heap, held, model, page, localStorage>>

\* forward(inputTokens, weights, targetToken) on the live weights
Forward(inputTokens, targetToken) ==
  /\ call = Idle
  /\ weights # Null
  /\ \E w \in {Load(heap, weights)} :
       \E result \in {forward(inputTokens, w, targetToken)} :
           /\ call' = [op |-> "forward", inputTokens |-> inputTokens,
                       targetToken |-> targetToken, weights |-> weights, pre |-> w,
                       outcome |-> IF result.raised THEN "raised" ELSE "returned",
                       result |-> result]
  /\ UNCHANGED <<config, vocabSize, weights, heap, rng, held, model, page, localStorage>>

\* trainStep(inputTokens, targetToken, weights, config.learningRate) on the
\* live weights; the caller takes newWeights as the live weights when the
\* call returns
TrainStep(inputTokens, targetToken) ==
  /\ call = Idle
  /\ weights # Null
  /\ \E r \in {trainStep(inputTokens, targetToken, weights, config.learningRate,
                         heap, FreshId(heap), rng)} :
         /\ heap' = r.heap
         /\ weights' = IF r.outcome = "returned" THEN r.newWeights ELSE weights
         /\ rng' = Advance(rng, r.drawn)
         /\ call' = [op |-> "trainStep", inputTokens |-> inputTokens,
                     targetToken |-> targetToken, weights |-> weights,
                     pre |-> Load(heap, weights), learningRate |-> config.learningRate,
                     outcome |-> r.outcome, built |-> r.built,
                     newWeights |-> r.newWeights, loss |-> r.loss, result |-> r.result]
  /\ held' = IF held = Idle THEN held ELSE [held EXCEPT !.between = TRUE]
  /\ UNCHANGED <<config, vocabSize, model, page, localStorage>>

\* The caller has taken what the call left and goes on: the arrays that
\* only the call held are garbage
Return ==
  /\ call # Idle
  /\ call' = Idle
  /\ heap' = IF weights = Null THEN heap ELSE Collect(heap, Arrays(weights))
  /\ UNCHANGED <<config, vocabSize, weights, rng, held, model, page, localStorage>>

Next ==
  \/ \E vs \in 1..MaxVocab, cfg \in Configs : InitializeWeights(vs, cfg)
  \/ \E inputTokens \in TokenSeqs, targetToken \in TokenIds \cup {NoTarget} :
       Forward(inputTokens, targetToken)
  \/ \E inputTokens \in TokenSeqs, targetToken \in TokenIds :
       TrainStep(inputTokens, targetToken)
  \/ Return

Spec == Init /\ [][Next]_vars

\* The caller keeps what the forward call that has just left returned, to
\* look at it again after later calls
Hold ==
  /\ call # Idle
  /\ call.op = "forward"
  /\ held' = [call |-> call, between |-> FALSE]
  /\ UNCHANGED <<config, vocabSize, weights, heap, rng, call, model, page, localStorage>>

\* The session with a caller that holds on to forward results
NextHeld == Next \/ Hold

SpecHeld == Init /\ [][NextHeld]_vars

\* The end of forward from the logits on, on logits chosen freely: logits
\* with equal entries are not among those the drawn weights produce
LogitEntries == {Fin(-SCALE), Zero, Fin(SCALE)}

LogitVectors == UNION {[1..n -> LogitEntries] : n \in 1..(MaxVocab + 1)}

PredictToken(logits) ==
  /\ call = Idle
  /\ \E probabilities \in {softmax(logits)} :
       call' = [op |-> "predictToken", logits |-> logits, outcome |-> "returned",
                probabilities |-> probabilities,
                predictedToken |-> ArgMax(probabilities, Len(probabilities)).predictedToken]
  /\ UNCHANGED <<config, vocabSize, weights, heap, rng, held, model, page, localStorage>>

NextPredict == Next \/ \E logits \in LogitVectors : PredictToken(logits)

SpecPredict == Init /\ [][NextPredict]_vars

\* ------------------------------------------------------------------------
\* The library functions called on their own
\* ------------------------------------------------------------------------
TextPieces == {"a", "A", ".", " ", "constructor"}

Texts == UNION {[1..n -> TextPieces] : n \in 0..MaxTextLen}

VocabWords == {<<"a">>, <<"constructor">>}

\* Every Record<string, number> over VocabWords and TokenIds
Vocabularies ==
  {v \in UNION {[1..n -> VocabWords \X TokenIds] : n \in 0..Cardinality(VocabWords)} :
     \A e, f \in DOMAIN v : v[e][1] = v[f][1] => e = f}

InitLib == Init /\ rng = 0

Tokenize(sentence, vocabulary) ==
  /\ call = Idle
  /\ call' = [op |-> "tokenize", sentence |-> sentence, vocabulary |-> vocabulary,
              outcome |-> "returned", result |-> tokenize(sentence, vocabulary)]
  /\ UNCHANGED <<config, vocabSize, weights, heap, rng, held, model, page, localStorage>>

Detokenize(tokenId, vocabulary) ==
  /\ call = Idle
  /\ call' = [op |-> "detokenize", tokenId |-> tokenId, vocabulary |-> vocabulary,
              outcome |-> "returned", result |-> detokenize(tokenId, vocabulary)]
  /\ UNCHANGED <<config, vocabSize, weights, heap, rng, held, model, page, localStorage>>

\* Finite numbers for the entries of a vector: equal ones, near and far
\* ones, and one so far below the others that its exponential underflows
VecEntries == {Fin(-746 * SCALE), Fin(-SCALE), Zero, Fin(SCALE \div 2), Fin(3 * SCALE)}

Vectors == UNION {[1..n -> VecEntries] : n \in 1..MaxVecLen}

Softmax(x) ==
  /\ call = Idle
  /\ call' = [op |-> "softmax", x |-> x, outcome |-> "returned", result |-> softmax(x)]
  /\ UNCHANGED <<config, vocabSize, weights, heap, rng, held, model, page, localStorage>>

NextLib ==
  \/ \E sentence \in Texts, vocabulary \in Vocabularies : Tokenize(sentence, vocabulary)
  \/ \E tokenId \in 0..MaxVocab, vocabulary \in Vocabularies :
       Detokenize(tokenId, vocabulary)
  \/ \E x \in Vectors : Softmax(x)
  \/ Return

SpecLib == InitLib /\ [][NextLib]_vars

\* ------------------------------------------------------------------------
\* The Training page
\* ------------------------------------------------------------------------
\* The build mounts one Training page at /training: the canvas of four
\* nodes with a panel each, or the wizard of four stages.  The page and
\* the store are looked at between events, when every effect has run.
\* The page's copies localCorpus and localConfig then equal model.corpus
\* and model.config and are not kept apart.  Time is left out: a timer
\* may tick whenever it is set, and the speed is not kept.

\* The first stops that the model moves over: of the slider of numHeads,
\* and of each other slider of ConfigPanel
HeadStops == 3
SliderStops == 1

Least(a, b) == IF a < b THEN a ELSE b

EmbedDimStops == {4 * k : k \in 1..Least(SliderStops, 8)}
NumLayersStops == 1..Least(SliderStops, 6)
NumHeadsStops == 1..Least(HeadStops, 4)
LearningRateStops == {Fin(v * (SCALE \div 1000)) : v \in 1..Least(SliderStops, 100)}

\* What the user may have typed into CorpusPanel when Save is enabled:
\* handleSave trims each line and drops the empty ones
MaxSentences == 2

Sentences ==
  {<<"b", " ", "a", ".">>, <<"constructor", " ", "a">>, <<"a", " ", ".">>}

Corpora == [1..MaxSentences -> Sentences]

\* The losses a trainStep may return
Losses == {Zero, One}

Unmounted == [mounted |-> FALSE]

\* The local state of TrainPanel or TrainingLoop at its first render, and
\* the store after the effect that initializes missing weights.
\* TrainPanel does so only for a non-empty vocabulary.
MountTraining(m, onlyWithVocabulary) ==
  LET vocabSize_ == Len(m.vocabulary)
      Initialized(w) ==
        [train |-> [mounted |-> TRUE, weights |-> w,
                    iteration |-> m.trainingProgress.iteration,
                    lossHistory |-> m.trainingProgress.lossHistory,
                    isPlaying |-> FALSE, speed |-> 1],
         model |-> [m EXCEPT !.weights = w]]
  IN IF m.weights = Null /\ (~onlyWithVocabulary \/ vocabSize_ > 0)
     THEN Initialized(WeightsShape(vocabSize_, m.config))
     ELSE Initialized(m.weights)

\* getTrainingPair ends only when some sentence has two tokens
CanPair(m) ==
  \E s \in DOMAIN m.corpus : Len(tokenize(m.corpus[s], m.vocabulary)) >= 2

\* runStep with `const newLossHistory = [loss]`: only the latest loss is kept
runStep_LatestLossOnly(m, train, loss, setsStatus) ==
  LET newIteration == train.iteration + 1
      newLossHistory == <<loss>>
      done == newIteration >= m.trainingProgress.maxIterations
  IN [train |-> [train EXCEPT !.iteration = newIteration,
                              !.lossHistory = newLossHistory,
                              !.isPlaying = IF done THEN FALSE ELSE @],
      model |-> [m EXCEPT !.weights = train.weights,
                          !.trainingProgress.iteration = newIteration,
                          !.trainingProgress.loss = loss,
                          !.trainingProgress.lossHistory = newLossHistory,
                          !.status = IF ~setsStatus THEN @
                                     ELSE IF done THEN "completed" ELSE "training"]]

\* runStep when trainStep returns newWeights (a copy of weights: the same
\* shape) and loss.  TrainPanel also sets the status.
runStep(m, train, loss, setsStatus) ==
  LET newIteration == train.iteration + 1
      newLossHistory == Append(train.lossHistory, loss)
      done == newIteration >= m.trainingProgress.maxIterations
  IN [train |-> [train EXCEPT !.iteration = newIteration,
                              !.lossHistory = newLossHistory,
                              !.isPlaying = IF done THEN FALSE ELSE @],
      model |-> [m EXCEPT !.weights = train.weights,
                          !.trainingProgress.iteration = newIteration,
                          !.trainingProgress.loss = loss,
                          !.trainingProgress.lossHistory = newLossHistory,
                          !.status = IF ~setsStatus THEN @
                                     ELSE IF done THEN "completed" ELSE "training"]]

\* ---- the canvas ----
Canvas == [view |-> "canvas", selectedNode |-> "none", localConfig |-> Null,
           train |-> Unmounted]

Nodes == {"corpus", "config", "model", "train"}

\* The page after setSelectedNode(node): the panel of the node is mounted
\* with its first local state, the other panels are gone
Select(node, m) ==
  [page |-> [view |-> "canvas", selectedNode |-> node,
             localConfig |-> IF node = "config" THEN m.config ELSE Null,
             train |-> IF node = "train" THEN MountTraining(m, TRUE).train
                       ELSE Unmounted],
   model |-> IF node = "train" THEN MountTraining(m, TRUE).model ELSE m]

onNodeClick(node) ==
  /\ page.view = "canvas"
  /\ page.selectedNode # node
  /\ page' = Select(node, model).page
  /\ model' = Select(node, model).model
  /\ UNCHANGED <<config, vocabSize, weights, heap, rng, call, held>>
  /\ localStorage' = IF model' = model THEN localStorage
                     ELSE saveModel(model', localStorage)

handleClosePanel ==
  /\ page.view = "canvas"
  /\ page.selectedNode # "none"
  /\ page' = Canvas
  /\ UNCHANGED <<config, vocabSize, weights, heap, rng, call, held, model, localStorage>>

\* handleCorpusChange that empties the vocabulary but keeps the weights
CorpusChanged_KeepsWeights(m, newCorpus) ==
  [m EXCEPT !.corpus = newCorpus, !.vocabulary = <<>>]

\* handleCorpusChange
CorpusChanged(m, newCorpus) ==
  [m EXCEPT !.corpus = newCorpus, !.vocabulary = <<>>, !.weights = Null]

\* CorpusPanel.handleSave: onCorpusChange, then onComplete selects Config
CorpusSave(newCorpus) ==
  /\ page.view = "canvas"
  /\ page.selectedNode = "corpus"
  /\ Len(newCorpus) > 0
  /\ model' = CorpusChanged(model, newCorpus)
  /\ page' = Select("config", CorpusChanged(model, newCorpus)).page
  /\ UNCHANGED <<config, vocabSize, weights, heap, rng, call, held>>
  /\ localStorage' = saveModel(model', localStorage)

\* CorpusPanel.handleReset
CorpusReset ==
  /\ page.view = "canvas"
  /\ page.selectedNode = "corpus"
  /\ model' = CorpusChanged(model, DEFAULT_CORPUS)
  /\ UNCHANGED <<config, vocabSize, weights, heap, rng, call, held, page>>
  /\ localStorage' = saveModel(model', localStorage)

\* ConfigPanel.updateConfig from a slider
updateConfig(key, value) ==
  /\ page.view = "canvas"
  /\ page.selectedNode = "config"
  /\ page' = [page EXCEPT !.localConfig[key] = value]
  /\ UNCHANGED <<config, vocabSize, weights, heap, rng, call, held, model, localStorage>>

\* handleConfigChange
ConfigChanged(m, newConfig) == [m EXCEPT !.config = newConfig, !.weights = Null]

\* ConfigPanel.handleSave: onConfigChange(localConfig), then onComplete
\* selects Model
ConfigSave ==
  /\ page.view = "canvas"
  /\ page.selectedNode = "config"
  /\ model' = ConfigChanged(model, page.localConfig)
  /\ page' = Select("model", ConfigChanged(model, page.localConfig)).page
  /\ UNCHANGED <<config, vocabSize, weights, heap, rng, call, held>>
  /\ localStorage' = saveModel(model', localStorage)

\* ModelPanel: onVocabularyChange(vocabulary), then
\* onWeightsChange(initializeWeights(vocabSize, config))
ModelInitialized(m) ==
  LET With(vocabulary) ==
        [m EXCEPT !.vocabulary = vocabulary,
                  !.weights = WeightsShape(Len(vocabulary), m.config)]
  IN With(ModelPanelVocabulary(m.corpus))

\* ModelPanel.handleInitialize, then onComplete selects Train
handleInitialize ==
  /\ page.view = "canvas"
  /\ page.selectedNode = "model"
  /\ model.weights = Null
  /\ model' = Select("train", ModelInitialized(model)).model
  /\ page' = Select("train", ModelInitialized(model)).page
  /\ UNCHANGED <<config, vocabSize, weights, heap, rng, call, held>>
  /\ localStorage' = saveModel(model', localStorage)

handleReinitialize ==
  /\ page.view = "canvas"
  /\ page.selectedNode = "model"
  /\ model.weights # Null
  /\ model' = ModelInitialized(model)
  /\ UNCHANGED <<config, vocabSize, weights, heap, rng, call, held, page>>
  /\ localStorage' = saveModel(model', localStorage)

\* "Continue to Training" of an initialized ModelPanel
handleModelComplete ==
  /\ page.view = "canvas"
  /\ page.selectedNode = "model"
  /\ model.weights # Null
  /\ model' = Select("train", model).model
  /\ page' = Select("train", model).page
  /\ UNCHANGED <<config, vocabSize, weights, heap, rng, call, held>>
  /\ localStorage' = IF model' = model THEN localStorage
                     ELSE saveModel(model', localStorage)

\* ---- TrainPanel and TrainingLoop ----
Training == page.train.mounted

\* TrainPanel needs canStart; TrainingLoop does not ask
canStart ==
  page.view = "wizard" \/ (page.train.weights # Null /\ Len(model.vocabulary) > 0)

isComplete == page.train.iteration >= model.trainingProgress.maxIterations

Play ==
  /\ Training
  /\ ~page.train.isPlaying
  /\ canStart
  /\ ~isComplete
  /\ page' = [page EXCEPT !.train.isPlaying = TRUE]
  /\ UNCHANGED <<config, vocabSize, weights, heap, rng, call, held, model, localStorage>>

Pause ==
  /\ Training
  /\ page.train.isPlaying
  /\ page' = [page EXCEPT !.train.isPlaying = FALSE]
  /\ UNCHANGED <<config, vocabSize, weights, heap, rng, call, held, model, localStorage>>

\* The speed buttons of TrainPanel and of TrainingLoop; the timer is set
\* anew with the period 1000 / speed
Speeds == IF page.view = "wizard" THEN {1, 2, 5, 10} ELSE {1, 5, 10}

setSpeed(s) ==
  /\ Training
  /\ page.train.speed # s
  /\ page' = [page EXCEPT !.train.speed = s]
  /\ UNCHANGED <<config, vocabSize, weights, heap, rng, call, held, model, localStorage>>

\* runStep from the Step button or from the timer.  It does nothing
\* without weights or at maxIterations; getTrainingPair or trainStep may
\* raise, which ends the handler with nothing set; or trainStep returns.
RunStep(loss) ==
  /\ Training
  /\ \/ ~page.train.isPlaying /\ canStart /\ ~isComplete
     \/ page.train.isPlaying /\ ~isComplete
  /\ page.train.weights # Null
  /\ CanPair(model)
  /\ page' = [page EXCEPT !.train = runStep(model, page.train, loss, page.view = "canvas").train]
  /\ model' = runStep(model, page.train, loss, page.view = "canvas").model
  /\ UNCHANGED <<config, vocabSize, weights, heap, rng, call, held>>
  /\ localStorage' = saveModel(model', localStorage)

\* The reset button: TrainPanel.handleReset also stops the play and sets
\* the status
TrainingReset ==
  /\ Training
  /\ \E newWeights \in {WeightsShape(Len(model.vocabulary), model.config)} :
       /\ page' = [page EXCEPT !.train.iteration = 0,
                               !.train.lossHistory = <<>>,
                               !.train.weights = newWeights,
                               !.train.isPlaying =
                                  IF page.view = "canvas" THEN FALSE ELSE @]
       /\ model' = [model EXCEPT !.weights = newWeights,
                                 !.trainingProgress.iteration = 0,
                                 !.trainingProgress.loss = Zero,
                                 !.trainingProgress.lossHistory = <<>>,
                                 !.status = IF page.view = "canvas" THEN "idle" ELSE @]
  /\ UNCHANGED <<config, vocabSize, weights, heap, rng, call, held>>
  /\ localStorage' = saveModel(model', localStorage)

\* ---- the wizard ----
Wizard == [view |-> "wizard", selectedNode |-> "none", localConfig |-> Null,
           train |-> Unmounted]

\* The store and the page after setStage(stage): stage 4 mounts
\* TrainingLoop
StageSet(stage, m) ==
  LET Staged(at) ==
        [page |-> [Wizard EXCEPT !.train = IF stage = 4 THEN MountTraining(at, FALSE).train
                                           ELSE Unmounted],
         model |-> IF stage = 4 THEN MountTraining(at, FALSE).model ELSE at]
  IN Staged([m EXCEPT !.stage = stage])

\* handleStageClick without `if (stage <= currentStage)`: every stage
\* indicator sets its stage
handleStageClick_AnyStage(stage) ==
  /\ page.view = "wizard"
  /\ stage # model.stage
  /\ model' = StageSet(stage, model).model
  /\ page' = StageSet(stage, model).page
  /\ UNCHANGED <<config, vocabSize, weights, heap, rng, call, held>>
  /\ localStorage' = saveModel(model', localStorage)

\* StageProgress: a click on a stage up to the current one
handleStageClick(stage) ==
  /\ page.view = "wizard"
  /\ stage < model.stage
  /\ model' = StageSet(stage, model).model
  /\ page' = StageSet(stage, model).page
  /\ UNCHANGED <<config, vocabSize, weights, heap, rng, call, held>>
  /\ localStorage' = saveModel(model', localStorage)

\* A click on a word button of VocabularyBuilder that is not `in` the
\* vocabulary (a click on another one only highlights it)
WordClick(word) ==
  /\ page.view = "wizard"
  /\ model.stage = 1
  /\ word \in ButtonWords(model.corpus)
  /\ ~HasProperty(model.vocabulary, word)
  /\ model' = [model EXCEPT !.vocabulary = handleWordClick(model.vocabulary, word)]
  /\ UNCHANGED <<config, vocabSize, weights, heap, rng, call, held, page>>
  /\ localStorage' = saveModel(model', localStorage)

\* "Auto-assign remaining", disabled when allAssigned
AutoAssign ==
  /\ page.view = "wizard"
  /\ model.stage = 1
  /\ ~allAssigned(model.corpus, model.vocabulary)
  /\ model' = [model EXCEPT !.vocabulary = handleAutoAssign(model.corpus, model.vocabulary)]
  /\ UNCHANGED <<config, vocabSize, weights, heap, rng, call, held, page>>
  /\ localStorage' = saveModel(model', localStorage)

\* EmbeddingInitializer.currentEmbeddings: the embeddings of the store
\* when they have a row per word, else fresh ones
currentEmbeddings(m) ==
  IF m.weights # Null /\ m.weights.embeddings[1] = Len(m.vocabulary)
  THEN m.weights.embeddings
  ELSE <<Len(m.vocabulary), m.config.embedDim>>

\* onEmbeddingsChange of the wizard: the weights of the store, or weights
\* with no layers and an empty output layer, with the embeddings replaced
EmbeddingsChanged(m, emb) ==
  IF m.weights # Null THEN [m EXCEPT !.weights.embeddings = emb]
  ELSE [m EXCEPT !.weights = [embeddings |-> emb, layers |-> 0, layer |-> NoLayerShape,
                              W |-> <<0, 0>>, b |-> 0]]

\* The Continue button of stages 1 to 3 (in AttentionExplainer, Next on
\* the last scenario); that of VocabularyBuilder is disabled until
\* allAssigned, that of EmbeddingInitializer first emits its embeddings
Continue ==
  /\ page.view = "wizard"
  /\ model.stage < 4
  /\ model.stage = 1 => allAssigned(model.corpus, model.vocabulary)
  /\ \E m \in {IF model.stage = 2
                THEN EmbeddingsChanged(model, currentEmbeddings(model))
                ELSE model} :
       /\ model' = StageSet(model.stage + 1, m).model
       /\ page' = StageSet(model.stage + 1, m).page
  /\ UNCHANGED <<config, vocabSize, weights, heap, rng, call, held>>
  /\ localStorage' = saveModel(model', localStorage)

\* The Back button of stages 2 to 4
onBack ==
  /\ page.view = "wizard"
  /\ model.stage > 1
  /\ model' = StageSet(model.stage - 1, model).model
  /\ page' = StageSet(model.stage - 1, model).page
  /\ UNCHANGED <<config, vocabSize, weights, heap, rng, call, held>>
  /\ localStorage' = saveModel(model', localStorage)

\* updateEmbedding from a slider of the selected word
updateEmbedding ==
  /\ page.view = "wizard"
  /\ model.stage = 2
  /\ Len(model.vocabulary) > 0
  /\ model' = EmbeddingsChanged(model, currentEmbeddings(model))
  /\ UNCHANGED <<config, vocabSize, weights, heap, rng, call, held, page>>
  /\ localStorage' = saveModel(model', localStorage)

randomizeAll ==
  /\ page.view = "wizard"
  /\ model.stage = 2
  /\ model' = EmbeddingsChanged(model, <<Len(model.vocabulary), model.config.embedDim>>)
  /\ UNCHANGED <<config, vocabSize, weights, heap, rng, call, held, page>>
  /\ localStorage' = saveModel(model', localStorage)

InitApp ==
  /\ config = Null
  /\ vocabSize = 0
  /\ weights = Null
  /\ heap = EmptyHeap
  /\ rng = 0
  /\ call = Idle
  /\ held = Idle
  /\ model = createInitialModel
  /\ page \in {Canvas, Wizard}
  /\ localStorage = NoItem

NextApp ==
  \/ \E node \in Nodes : onNodeClick(node)
  \/ handleClosePanel
  \/ \E newCorpus \in Corpora : CorpusSave(newCorpus)
  \/ CorpusReset
  \/ \E value \in EmbedDimStops : updateConfig("embedDim", value)
  \/ \E value \in NumLayersStops : updateConfig("numLayers", value)
  \/ \E value \in NumHeadsStops : updateConfig("numHeads", value)
  \/ \E value \in LearningRateStops : updateConfig("learningRate", value)
  \/ ConfigSave
  \/ handleInitialize
  \/ handleReinitialize
  \/ handleModelComplete
  \/ Play
  \/ Pause
  \/ \E s \in Speeds : setSpeed(s)
  \/ \E loss \in Losses : RunStep(loss)
  \/ TrainingReset
  \/ \E stage \in 1..3 : handleStageClick(stage)
  \/ Continue
  \/ onBack
  \/ \E word \in ButtonWords(model.corpus) : WordClick(word)
  \/ AutoAssign
  \/ updateEmbedding
  \/ randomizeAll

SpecApp == InitApp /\ [][NextApp]_vars

\* ------------------------------------------------------------------------
\* The training loop on the engine
\* ------------------------------------------------------------------------
\* TrainPanel as it is mounted after ModelPanel has initialized the model
\* of the default corpus, with the component's weights state held as a
\* tree in the heap, so that runStep calls the trainStep of the engine.
\* What getTrainingPair can return: a sentence with two tokens or more,
\* split at any point into a non-empty prefix and the token after it
TrainingPairs(corpus, vocabulary) ==
  UNION {LET Split(tokens) ==
               {[inputTokens |-> SubSeq(tokens, 1, k), targetToken |-> tokens[k + 1]]
                : k \in 1..(Len(tokens) - 1)}
         IN Split(tokenize(corpus[s], vocabulary))
         : s \in DOMAIN corpus}

InitLoop ==
  \E s \in 0..(RngStates - 1), cfg \in Configs :
    \E vocabulary \in {ModelPanelVocabulary(DEFAULT_CORPUS)} :
      \E w \in {initializeWeights(Len(vocabulary), cfg, s)} :
        \E tree \in {NewTree(1, w)} :
          \E m \in {[createInitialModel EXCEPT
                       !.vocabulary = vocabulary, !.config = cfg,
                       !.weights = WeightsShape(Len(vocabulary), cfg)]} :
            /\ config = cfg
            /\ vocabSize = Len(vocabulary)
            /\ weights = tree
            /\ heap = Allocate(EmptyHeap, tree, w)
            /\ rng = Advance(s, InitDraws(Len(vocabulary), cfg))
            /\ call = Idle
            /\ held = Idle
            /\ model = m
            /\ page = [Canvas EXCEPT !.selectedNode = "train",
                                     !.train = MountTraining(m, TRUE).train]
            /\ localStorage = saveModel(m, NoItem)

\* The body of runStep past its first return: the trainStep of the engine
\* on a pair of getTrainingPair.  When trainStep raises, the exception
\* leaves runStep before anything is set (no try/catch); the timer, if
\* any, goes on.
runStepOnWeights(pair) ==
  /\ call = Idle
  /\ ~isComplete
  /\ \E r \in {trainStep(pair.inputTokens, pair.targetToken, weights,
                          model.config.learningRate, heap, FreshId(heap), rng)} :
       /\ heap' = r.heap
       /\ rng' = Advance(rng, r.drawn)
       /\ call' = [op |-> "trainStep", inputTokens |-> pair.inputTokens,
                   targetToken |-> pair.targetToken, weights |-> weights,
                   pre |-> Load(heap, weights),
                   learningRate |-> model.config.learningRate,
                   outcome |-> r.outcome, built |-> r.built,
                   newWeights |-> r.newWeights, loss |-> r.loss, result |-> r.result]
       /\ IF r.outcome = "returned"
          THEN /\ weights' = r.newWeights
               /\ page' = [page EXCEPT !.train = runStep(model, page.train, r.loss, TRUE).train]
               /\ model' = runStep(model, page.train, r.loss, TRUE).model
               /\ localStorage' = saveModel(model', localStorage)
          ELSE UNCHANGED <<weights, page, model, localStorage>>
  /\ UNCHANGED <<config, vocabSize, held>>

\* setInterval(runStep, 1000 / speed) of the auto-play effect
TimerTick(pair) ==
  /\ Training
  /\ page.train.isPlaying
  /\ runStepOnWeights(pair)

TimerTicks ==
  \E pair \in TrainingPairs(model.corpus, model.vocabulary) : TimerTick(pair)

\* The Step button
StepButton(pair) ==
  /\ Training
  /\ ~page.train.isPlaying
  /\ canStart
  /\ runStepOnWeights(pair)

\* TrainPanel.handleReset, with initializeWeights of the engine
handleReset ==
  /\ Training
  /\ call = Idle
  /\ \E w \in {initializeWeights(vocabSize, config, rng)} :
       \E tree \in {NewTree(1, w)} :
         /\ weights' = tree
         /\ heap' = Allocate(EmptyHeap, tree, w)
         /\ rng' = Advance(rng, InitDraws(vocabSize, config))
  /\ \E newWeights \in {WeightsShape(Len(model.vocabulary), model.config)} :
       /\ page' = [page EXCEPT !.train.iteration = 0,
                               !.train.lossHistory = <<>>,
                               !.train.weights = newWeights,
                               !.train.isPlaying = FALSE]
       /\ model' = [model EXCEPT !.weights = newWeights,
                                 !.trainingProgress.iteration = 0,
                                 !.trainingProgress.loss = Zero,
                                 !.trainingProgress.lossHistory = <<>>,
                                 !.status = "idle"]
  /\ UNCHANGED <<config, vocabSize, call, held>>
  /\ localStorage' = saveModel(model', localStorage)

NextLoop ==
  \/ Play
  \/ Pause
  \/ \E s \in Speeds : setSpeed(s)
  \/ TimerTicks
  \/ \E pair \in TrainingPairs(model.corpus, model.vocabulary) : StepButton(pair)
  \/ handleReset
  \/ Return

\* The timer's callback can run: trainStep is total, so a tick is enabled
\* exactly when its guards hold and getTrainingPair has a pair to return
TimerDue ==
  /\ Training
  /\ page.train.isPlaying
  /\ call = Idle
  /\ ~isComplete
  /\ TrainingPairs(model.corpus, model.vocabulary) # {}

\* While isPlaying the timer fires again and again, and a call that has
\* been entered leaves; the user is not obliged to anything.  The first
\* condition is WF_vars(TimerTicks), written with TimerDue for
\* ENABLED <<TimerTicks>>_vars.
SpecLoop ==
  /\ InitLoop
  /\ [][NextLoop]_vars
  /\ ([]<>(~TimerDue) \/ []<><<TimerTicks>>_vars)
  /\ WF_vars(Return)

\* ------------------------------------------------------------------------
\* The store called on its own
\* ------------------------------------------------------------------------
\* A model an earlier visit has left in localStorage
SavedModels ==
  {[createInitialModel EXCEPT !.stage = 3,
                              !.vocabulary = ModelPanelVocabulary(DEFAULT_CORPUS)]}

\* The store before loadModel (model: null), over what localStorage may hold
InitStore ==
  /\ config = Null
  /\ vocabSize = 0
  /\ weights = Null
  /\ heap = EmptyHeap
  /\ rng = 0
  /\ call = Idle
  /\ held = Idle
  /\ model = Null
  /\ page = NoPage
  /\ localStorage \in {NoItem} \cup {stringify(m) : m \in SavedModels}

\* The arguments the pages pass to the mutators
StoreVocabularies == {<<>>, ModelPanelVocabulary(DEFAULT_CORPUS)}

StoreWeights ==
  {WeightsShape(2, DEFAULT_CONFIG),
   [embeddings |-> <<2, 8>>, layers |-> 0, layer |-> NoLayerShape, W |-> <<0, 0>>, b |-> 0]}

StoreProgress ==
  {[iteration |-> 0, loss |-> Zero, lossHistory |-> <<>>],
   [iteration |-> 1, loss |-> One, lossHistory |-> <<One>>],
   [loss |-> One]}

Statuses == {"idle", "training", "completed"}

\* { ...model.trainingProgress, ...progress }
Spread(trainingProgress, progress) ==
  [f \in DOMAIN trainingProgress |->
     IF f \in DOMAIN progress THEN progress[f] ELSE trainingProgress[f]]

\* A mutator: `if (model) { set({ model: changed }); get().saveModel(); }`
Mutate(op, changed) ==
  /\ call = Idle
  /\ call' = [op |-> op, outcome |-> "returned"]
  /\ model' = IF model = Null THEN model ELSE changed
  /\ localStorage' = IF model = Null THEN localStorage
                     ELSE saveModel(model', localStorage)
  /\ UNCHANGED <<config, vocabSize, weights, heap, rng, held, page>>

setStage(stage) ==
  Mutate("setStage", [model EXCEPT !.stage = stage])

setVocabulary(vocabulary) ==
  Mutate("setVocabulary", [model EXCEPT !.vocabulary = vocabulary])

setWeights(w) ==
  Mutate("setWeights", [model EXCEPT !.weights = w])

updateTrainingProgress(progress) ==
  Mutate("updateTrainingProgress",
         [model EXCEPT !.trainingProgress = Spread(@, progress)])

setStatus(status) ==
  Mutate("setStatus", [model EXCEPT !.status = status])

\* loadModel, from its call to the set after the await
LoadModel ==
  /\ call = Idle
  /\ call' = [op |-> "loadModel", outcome |-> "returned"]
  /\ model' = loadModel(localStorage)
  /\ UNCHANGED <<config, vocabSize, weights, heap, rng, held, page, localStorage>>

\* resetModel, from its call to the set after the await
resetModel ==
  /\ call = Idle
  /\ call' = [op |-> "resetModel", outcome |-> "returned"]
  /\ localStorage' = NoItem
  /\ model' = createInitialModel
  /\ UNCHANGED <<config, vocabSize, weights, heap, rng, held, page>>

NextStore ==
  \/ LoadModel
  \/ resetModel
  \/ \E stage \in 1..4 : setStage(stage)
  \/ \E vocabulary \in StoreVocabularies : setVocabulary(vocabulary)
  \/ \E w \in StoreWeights : setWeights(w)
  \/ \E progress \in StoreProgress : updateTrainingProgress(progress)
  \/ \E status \in Statuses : setStatus(status)
  \/ Return

SpecStore == InitStore /\ [][NextStore]_vars

\* ------------------------------------------------------------------------
\* Claims
\* ------------------------------------------------------------------------
\* Every id of inputTokens lies in [0, vocabSize); inputTokens is non-empty
ValidTokens(inputTokens) ==
  /\ Len(inputTokens) >= 1
  /\ \A p \in DOMAIN inputTokens : inputTokens[p] \in 0..(vocabSize - 1)

\* The call that has just left is a forward / a trainStep on valid arguments
ValidForward ==
  /\ call.op = "forward"
  /\ ValidTokens(call.inputTokens)
  /\ call.targetToken \in (0..(vocabSize - 1)) \cup {NoTarget}

ValidTrainStep ==
  /\ call.op = "trainStep"
  /\ ValidTokens(call.inputTokens)
  /\ call.targetToken \in 0..(vocabSize - 1)

AllFinite(x) == \A i \in DOMAIN x : x[i].fin

AllFinite2(m) == \A i \in DOMAIN m : AllFinite(m[i])

\* Every number a ForwardResult exposes is finite
FiniteResult(result) ==
  /\ \A l \in DOMAIN result.layerOutputs :
       /\ \A k \in DOMAIN result.layerOutputs[l].attentionScores :
            AllFinite2(result.layerOutputs[l].attentionScores[k])
       /\ AllFinite2(result.layerOutputs[l].attentionOutput)
       /\ AllFinite2(result.layerOutputs[l].ffnOutput)
  /\ AllFinite(result.logits)
  /\ AllFinite(result.probabilities)
  /\ result.targetToken # NoTarget => result.loss.fin

\* C1: forward on weights of initializeWeights and valid tokens returns
\* logits and probabilities with exactly vocabSize entries each.
C1_LogitsOverVocabulary ==
  ValidForward =>
    /\ call.outcome = "returned"
    /\ Len(call.result.logits) = vocabSize
    /\ Len(call.result.probabilities) = vocabSize

\* C2: under valid inputs no number exposed by forward or trainStep is NaN
\* or infinite: scores, attention and ffn outputs, logits, probabilities
\* and the loss are all finite.
C2_NoNaNSurfaces ==
  (ValidForward \/ ValidTrainStep) =>
    /\ ~call.result.raised
    /\ FiniteResult(call.result)

\* C3: on weights of initializeWeights (numLayers >= 0) and valid arguments
\* trainStep completes normally and returns {newWeights, loss, result}.
C3_TrainStepReturns ==
  ValidTrainStep => call.outcome = "returned"

\* C4: trainStep never alters its input weights: whether it returned or
\* raised, the arrays of the input tree hold the numbers they held before.
C4_InputWeightsUnchanged ==
  call.op = "trainStep" =>
    /\ Arrays(call.weights) \subseteq DOMAIN heap
    /\ Load(heap, call.weights) = call.pre

\* trainStep has left after writing into the tree it built
C4_Witness ==
  /\ ValidTrainStep
  /\ call.built
  /\ Load(heap, call.newWeights) # call.pre

\* C5: the newWeights that trainStep builds shares no array with the input
\* weights: every row and vector of it is another array object.
C5_NewWeightsOwnStorage ==
  (call.op = "trainStep" /\ call.built) =>
    Arrays(call.newWeights) \cap Arrays(call.weights) = {}

\* trainStep has written through newWeights into an output row, and the
\* row of the input weights at the same place does not show the write
C5_Witness ==
  /\ ValidTrainStep
  /\ call.built
  /\ \E d \in DOMAIN call.newWeights.output.W :
       heap[call.newWeights.output.W[d]] # heap[call.weights.output.W[d]]

\* C6: a trainStep leaves every attention-head matrix and every
\* feed-forward parameter as it was: in the tree it builds for the next
\* call and in the live weights of the session.
C6_LayersFixed ==
  call.op = "trainStep" =>
    /\ Load(heap, weights).layers = call.pre.layers
    /\ call.built => Load(heap, call.newWeights).layers = call.pre.layers

\* trainStep has changed the output layer of a tree that has layers
C6_Witness ==
  /\ ValidTrainStep
  /\ call.built
  /\ Len(call.pre.layers) >= 1
  /\ HeadDim(config) >= 1
  /\ Load(heap, call.newWeights).output # call.pre.output

\* C7: in every layer and head of a forward pass the post-softmax
\* attention score(i, j) is exactly 0 for every j > i.
C7_CausalScoresZero ==
  (ValidForward /\ call.outcome = "returned") =>
    \A l \in DOMAIN call.result.layerOutputs :
      \A k \in DOMAIN call.result.layerOutputs[l].attentionScores :
        \A i \in DOMAIN call.inputTokens, j \in DOMAIN call.inputTokens :
          j > i => call.result.layerOutputs[l].attentionScores[k][i][j] = Zero

\* C8: forward is deterministic and stateless: a forward call on the same
\* (inputTokens, weights, targetToken) as an earlier one, whatever forward
\* and trainStep calls were made in between, leaves the same way and
\* returns the same logits, probabilities, predictedToken and loss.
C8_ForwardDeterministic ==
  (/\ call # Idle
   /\ call.op = "forward"
   /\ held # Idle
   /\ call.inputTokens = held.call.inputTokens
   /\ call.targetToken = held.call.targetToken
   /\ call.weights = held.call.weights) =>
    /\ call.outcome = held.call.outcome
    /\ call.outcome = "returned" =>
         /\ call.result.logits = held.call.result.logits
         /\ call.result.probabilities = held.call.result.probabilities
         /\ call.result.predictedToken = held.call.result.predictedToken
         /\ call.result.loss = held.call.result.loss

\* The same forward call again after a trainStep in between, with logits
\* that are numbers
C8_Witness ==
  /\ ValidForward
  /\ held # Idle
  /\ held.between
  /\ call.inputTokens = held.call.inputTokens
  /\ call.targetToken = held.call.targetToken
  /\ call.weights = held.call.weights
  /\ call.targetToken # NoTarget
  /\ call.outcome = "returned"
  /\ AllFinite(call.result.logits)

\* C9: after one trainStep, for every v in [0, vocabSize),
\* newWeights.output.b[v] = weights.output.b[v]
\*   + learningRate * ((1 if v = targetToken else 0) - p[v]),
\* p the probabilities of the forward pass on the pre-update weights.
C9_BiasUpdate ==
  ValidTrainStep =>
    /\ call.built
    /\ \A v \in 0..(vocabSize - 1) :
         At(heap[call.newWeights.output.b], v)
           = Add(At(call.pre.output.b, v),
                 Mul(call.learningRate,
                     Sub(IF v = call.targetToken THEN One ELSE Zero,
                         At(call.result.probabilities, v))))

C11_TokenizeKeepsVocabularyWords ==
  call.op = "tokenize" =>
    LET words == SplitWhitespace(StripPunctuation(toLowerCase(call.sentence)))
        known == SelectSeq(words, LAMBDA w : w \in OwnKeys(call.vocabulary))
    IN /\ Len(call.result) = Len(known)
       /\ \A i \in DOMAIN known :
            call.result[i] = GetProperty(call.vocabulary, known[i])
       /\ \A i \in DOMAIN call.result : call.result[i] \in OwnIds(call.vocabulary)

\* C12: detokenize(id, vocabulary) returns a word that the vocabulary maps
\* to id whenever there is one, and the placeholder "<id>" exactly when no
\* entry maps to id; for a vocabulary without a repeated id,
\* detokenize(vocabulary[w]) = w for every word w.
C12_DetokenizeFindsWord ==
  call.op = "detokenize" =>
    /\ call.tokenId \in OwnIds(call.vocabulary) =>
         /\ call.result \in OwnKeys(call.vocabulary)
         /\ GetProperty(call.vocabulary, call.result) = call.tokenId
    /\ call.tokenId \notin OwnIds(call.vocabulary) <=>
         call.result = Placeholder(call.tokenId)
    /\ Cardinality(OwnIds(call.vocabulary)) = Len(call.vocabulary) =>
         \A e \in DOMAIN call.vocabulary :
           detokenize(call.vocabulary[e][2], call.vocabulary) = call.vocabulary[e][1]

\* detokenize has found the word of an id in the second entry
C12_Witness ==
  /\ call.op = "detokenize"
  /\ Len(call.vocabulary) = 2
  /\ call.vocabulary[1][2] # call.tokenId
  /\ call.vocabulary[2][2] = call.tokenId
  /\ call.result = call.vocabulary[2][1]

\* Some id of inputTokens lies outside [0, vocabSize)
OutOfRange(inputTokens) ==
  \E p \in DOMAIN inputTokens : inputTokens[p] \notin 0..(vocabSize - 1)

\* C13: forward, and therefore trainStep, on inputTokens with an id
\* outside [0, vocabSize) raises: it returns no ForwardResult and builds no
\* new weights, and the weights argument is unchanged.
C13_OutOfRangeIdRaises ==
  (call.op \in {"forward", "trainStep"} /\ OutOfRange(call.inputTokens)) =>
    /\ call.outcome = "raised"
    /\ call.result.raised
    /\ call.op = "trainStep" => ~call.built
    /\ weights = call.weights
    /\ Load(heap, call.weights) = call.pre

\* trainStep has raised on an id without an embedding row that follows
\* an id with one
C13_Witness ==
  /\ call.op = "trainStep"
  /\ Len(call.inputTokens) = 2
  /\ call.inputTokens[1] \in 0..(vocabSize - 1)
  /\ call.inputTokens[2] = vocabSize
  /\ call.outcome = "raised"
  /\ ~call.built

\* A configuration the specification accepts
ValidConfig(c) ==
  /\ c.embedDim > 0
  /\ c.numHeads > 0
  /\ c.learningRate.fin /\ c.learningRate.v > 0
  /\ c.embedDim % c.numHeads = 0

\* C14: a configuration with non-positive embedDim, numHeads or
\* learningRate, or with embedDim not divisible by numHeads, never gets
\* Weights: neither ConfigPanel's Save nor initializeWeights lets it
\* through (the code keeps no flag that could mark such Weights).
C14_InvalidConfigFlagged ==
  model.weights # Null => ValidConfig(model.config)

\* C15: the trainStep calls of the training loop form one chain: when a
\* call has left, the live weights, from which the next call starts, are
\* the newWeights it returned and no longer the weights it started from,
\* so no two calls start from the same Weights value.
C15_SequentialChain ==
  call.op = "trainStep" =>
    /\ weights = call.newWeights
    /\ weights # call.weights

\* No two entries with one word or with one id, and the ids are 0..n-1
Bijective(vocabulary) ==
  /\ \A e, f \in DOMAIN vocabulary :
       (vocabulary[e][1] = vocabulary[f][1] \/ vocabulary[e][2] = vocabulary[f][2])
         => e = f
  /\ OwnIds(vocabulary) = 0..(Len(vocabulary) - 1)

\* Every entry of the vocabulary before the step is an entry after it
KeepsIds(before, after) ==
  /\ Len(after) >= Len(before)
  /\ \A e \in DOMAIN before : after[e] = before[e]

Shaped(matrix, rows, cols) ==
  /\ Len(matrix) = rows
  /\ \A r \in DOMAIN matrix : Len(matrix[r]) = cols

\* C17: initializeWeights(vocabSize, config) returns embeddings of
\* vocabSize rows by embedDim; numLayers layers of numHeads heads with Wq,
\* Wk, Wv of embedDim rows by floor(embedDim / numHeads), W1 of embedDim
\* rows by 2*embedDim and W2 of 2*embedDim rows by embedDim; output W of
\* embedDim rows by vocabSize and b of vocabSize entries, whatever the
\* random numbers are.
C17_InitializedShapes ==
  call.op = "initializeWeights" =>
    LET Shapes(w, e, headDim) ==
          /\ Shaped(w.embeddings, vocabSize, e)
          /\ Len(w.layers) = config.numLayers
          /\ \A l \in DOMAIN w.layers :
               /\ Len(w.layers[l].attention.heads) = config.numHeads
               /\ \A h \in DOMAIN w.layers[l].attention.heads :
                    /\ Shaped(w.layers[l].attention.heads[h].Wq, e, headDim)
                    /\ Shaped(w.layers[l].attention.heads[h].Wk, e, headDim)
                    /\ Shaped(w.layers[l].attention.heads[h].Wv, e, headDim)
               /\ Shaped(w.layers[l].ffn.W1, e, 2 * e)
               /\ Shaped(w.layers[l].ffn.W2, 2 * e, e)
          /\ Shaped(w.output.W, e, vocabSize)
          /\ Len(w.output.b) = vocabSize
    IN Shapes(Load(heap, weights), config.embedDim,
              config.embedDim \div config.numHeads)

\* Weights of MaxLayers layers of two heads over MaxVocab words
C17_Witness ==
  /\ call.op = "initializeWeights"
  /\ vocabSize = MaxVocab
  /\ config.embedDim = 2
  /\ config.numHeads = 2
  /\ config.numLayers = MaxLayers
  /\ Len(Load(heap, weights).layers[MaxLayers].attention.heads) = 2

\* On the grid each of the n quotients of softmax is rounded down by less
\* than one unit, so the sum of exact quotients lies within n - 1 units
\* of 1 (the counterpart of the rounding of doubles that 1e-9 allows for)
GridSlack(n) == n - 1

\* C18: for a finite non-empty x, softmax(x) is as long as x, each element
\* lies in [0, 1] and the elements sum to 1 within the rounding of the
\* arithmetic.
C18_SoftmaxDistribution ==
  call.op = "softmax" =>
    /\ Len(call.result) = Len(call.x)
    /\ \A i \in DOMAIN call.result :
         /\ call.result[i].fin
         /\ call.result[i].v >= 0
         /\ call.result[i].v <= SCALE
    /\ Sum(call.result).fin
    /\ Sum(call.result).v <= SCALE
    /\ Sum(call.result).v >= SCALE - GridSlack(Len(call.x))

\* A vector of MaxVecLen entries with one entry strictly between 0 and 1
\* and one whose exponential underflowed to 0
C18_Witness ==
  /\ call.op = "softmax"
  /\ Len(call.x) = MaxVecLen
  /\ \E i, j \in DOMAIN call.result :
       /\ call.result[i].v > 0
       /\ call.result[i].v < SCALE
       /\ call.result[j].v = 0

\* C19: whenever the store holds weights, the embeddings have one row for
\* each word of the store's vocabulary, across corpus saves and resets,
\* config saves, vocabulary assignment, embedding edits,
\* (re)initialization, training steps and training reset.
C19_EmbeddingRowsMatchVocabulary ==
  model.weights # Null => model.weights.embeddings[1] = Len(model.vocabulary)

\* On the canvas, after a corpus with an empty word or an inherited name
\* was saved, the config was changed and the model was initialized
C19_Witness ==
  /\ page.view = "canvas"
  /\ model.weights # Null
  /\ model.corpus # DEFAULT_CORPUS
  /\ model.config # DEFAULT_CONFIG
  /\ Len(model.vocabulary) = 1
  /\ page.train.mounted

\* The pairs <<length of the left operand, length of the right operand>>
\* of the dot products of matVecMul(matrix, vec) and of vecAdd(a, b)
matVecMulOperands(matrix, vec) == {<<Len(matrix[r]), Len(vec)>> : r \in DOMAIN matrix}

vecAddOperands(a, b) == {<<Len(a), Len(b)>>}

\* ... of attentionHead(input, head): the three projections of every
\* position and the dot products of queries with keys
attentionHeadOperands(input, head) ==
  LET Scores(Q, K) ==
        {<<Len(Q[i]), Len(K[j])>> : i \in DOMAIN input, j \in DOMAIN input}
  IN UNION {matVecMulOperands(head.Wq, input[i]) \cup matVecMulOperands(head.Wk, input[i])
              \cup matVecMulOperands(head.Wv, input[i]) : i \in DOMAIN input}
       \cup Scores(Arr([i \in DOMAIN input |-> matVecMul(head.Wq, input[i])]),
                   Arr([i \in DOMAIN input |-> matVecMul(head.Wk, input[i])]))

\* ... of feedForward(input, ffn)
feedForwardOperands(input, ffn) ==
  LET Second(hidden) ==
        matVecMulOperands(ffn.W2, hidden)
          \cup vecAddOperands(matVecMul(ffn.W2, hidden), ffn.b2)
      First(projected) ==
        vecAddOperands(projected, ffn.b1) \cup Second(relu(vecAdd(projected, ffn.b1)))
  IN matVecMulOperands(ffn.W1, input) \cup First(matVecMul(ffn.W1, input))

\* ... of one iteration of the loop over weights.layers; step is what the
\* iteration computes
LayerOperands(current, layer) ==
  LET Ffn(step, afterAttention) ==
        UNION {feedForwardOperands(afterAttention[i], layer.ffn)
                 \cup vecAddOperands(afterAttention[i], step.out.ffnOutput[i])
               : i \in DOMAIN current}
      Attention(step) ==
        UNION {vecAddOperands(current[i], step.out.attentionOutput[i]) : i \in DOMAIN current}
          \cup Ffn(step, Arr([i \in DOMAIN current |->
                              layerNorm(vecAdd(current[i], step.out.attentionOutput[i]))]))
  IN UNION {attentionHeadOperands(current, layer.attention.heads[h])
            : h \in DOMAIN layer.attention.heads}
       \cup Attention(LayerStep(current, layer))

\* ... of the first n layers on the embedded sequence
RECURSIVE LayersOperands(_, _, _)
LayersOperands(embedded, layers, n) ==
  IF n = 0 THEN {}
  ELSE LayersOperands(embedded, layers, n - 1)
         \cup LayerOperands(Layers(embedded, layers, n - 1).current, layers[n])

\* ... of a forward pass that gets past the embedding lookup
forwardOperands(inputTokens, w) ==
  LET Output(lastHidden) ==
        matVecMulOperands(w.output.W, lastHidden)
          \cup vecAddOperands(matVecMul(w.output.W, lastHidden), w.output.b)
      Embedded(embedded) ==
        LayersOperands(embedded, w.layers, Len(w.layers))
          \cup Output(Layers(embedded, w.layers, Len(w.layers)).current[Len(inputTokens)])
  IN Embedded(embeddingLookup(inputTokens, w).rows)

\* C20: for a valid config, every dot product, matrix-vector product and
\* elementwise addition of forward on weights of initializeWeights has
\* operands of equal length.
C20_OperandLengthsMatch ==
  (ValidForward /\ ValidConfig(config)) =>
    \A operands \in forwardOperands(call.inputTokens, call.pre) :
      operands[1] = operands[2]

\* const lastHidden = current[seqLen - 1] of forward: the vector it
\* multiplies by output.W
forwardLastHidden(inputTokens, w) ==
  Layers(embeddingLookup(inputTokens, w).rows, w.layers,
         Len(w.layers)).current[Len(inputTokens)]

\* const lastHidden = result.layerOutputs[lastLayerIdx].ffnOutput[...] of
\* trainStep, on a result with at least one layer
trainStepLastHidden(inputTokens, result) ==
  result.layerOutputs[Len(result.layerOutputs)].ffnOutput[Len(inputTokens)]

\* C21: the lastHidden of trainStep's output-layer update is the vector
\* forward multiplies by output.W: the hidden state at the last position
\* after the last layer's second residual and layerNorm, embedDim wide.
C21_LastHiddenShared ==
  (ValidTrainStep /\ config.numLayers >= 1) =>
    /\ trainStepLastHidden(call.inputTokens, call.result)
         = forwardLastHidden(call.inputTokens, call.pre)
    /\ Len(trainStepLastHidden(call.inputTokens, call.result)) = config.embedDim

\* |x| <= bound, for numbers of the grid
Within(x, limit) == x.fin /\ limit.fin /\ -limit.v <= x.v /\ x.v <= limit.v

\* C22: in one trainStep each coordinate of the embedding row of an id
\* present in inputTokens receives exactly one perturbation of magnitude at
\* most learningRate * 0.05, however often the id occurs; rows of the
\* other ids are equal in weights and newWeights.
C22_OnePerturbationPerRow ==
  ValidTrainStep =>
    /\ call.outcome = "returned"
    /\ \A id \in 0..(vocabSize - 1), d \in 1..config.embedDim :
         IF \E p \in DOMAIN call.inputTokens : call.inputTokens[p] = id
         THEN Within(Sub(heap[call.newWeights.embeddings[id + 1]][d],
                         call.pre.embeddings[id + 1][d]),
                     Mul(call.learningRate, Fin(SCALE \div 20)))
         ELSE heap[call.newWeights.embeddings[id + 1]][d]
                = call.pre.embeddings[id + 1][d]

\* headOutputs of the l-th layer of a forward pass that gets past the
\* embedding lookup: what attentionHead returns as output for every head
\* on the layer's input
headOutputs(inputTokens, w, l) ==
  LET Run(current) ==
        Arr([h \in DOMAIN w.layers[l].attention.heads |->
               attentionHead(current, w.layers[l].attention.heads[h]).output])
  IN Run(Layers(embeddingLookup(inputTokens, w).rows, w.layers, l - 1).current)

\* C23: in each layer every head yields vectors of headDim =
\* floor(embedDim / numHeads) entries, and the combined attention output at
\* each position and dimension d in [0, embedDim) is the sum over heads of
\* the head's output at index d mod headDim, divided by the number of heads.
C23_HeadsAveragedModHeadDim ==
  (ValidForward /\ ValidConfig(config)) =>
    \A l \in 1..config.numLayers :
      \E outs \in {headOutputs(call.inputTokens, call.pre, l)} :
        /\ \A h \in DOMAIN outs : \A i \in DOMAIN outs[h] :
             Len(outs[h][i]) = HeadDim(config)
        /\ \A i \in DOMAIN call.inputTokens : \A d \in 0..(config.embedDim - 1) :
             At(call.result.layerOutputs[l].attentionOutput[i], d)
               = Sum(Arr([h \in DOMAIN outs |->
                        Div(At(outs[h][i], d % HeadDim(config)),
                            Fin(config.numHeads * SCALE))]))

\* predictedToken is the first index of probabilities whose entry no entry
\* exceeds
FirstMaximum(probabilities, predictedToken) ==
  /\ predictedToken \in 0..(Len(probabilities) - 1)
  /\ \A i \in DOMAIN probabilities :
       ~Gt(probabilities[i], At(probabilities, predictedToken))
  /\ \A i \in 1..predictedToken :
       Gt(At(probabilities, predictedToken), probabilities[i])

\* C24: forward's predictedToken is an index in [0, vocabSize) at which
\* probabilities is maximal, the smallest one when several indices share
\* the maximum.
C24_PredictedIsFirstMaximum ==
  /\ (ValidForward /\ call.outcome = "returned") =>
       /\ call.result.predictedToken \in 0..(vocabSize - 1)
       /\ FirstMaximum(call.result.probabilities, call.result.predictedToken)
  /\ call.op = "predictToken" =>
       FirstMaximum(call.probabilities, call.predictedToken)

\* The largest probability is shared by the last two of three indices, and
\* the first index has a smaller one
C24_Witness ==
  /\ call.op = "predictToken"
  /\ Len(call.probabilities) = 3
  /\ call.predictedToken = 1
  /\ call.probabilities[2] = call.probabilities[3]
  /\ Gt(call.probabilities[2], call.probabilities[1])

\* runStep, from the Step button or the timer, gets past its first return
\* and calls getTrainingPair
CallsGetTrainingPair ==
  /\ Training
  /\ \/ ~page.train.isPlaying /\ canStart /\ ~isComplete
     \/ page.train.isPlaying /\ ~isComplete
  /\ page.train.weights # Null

\* C25: getTrainingPair terminates for every corpus and vocabulary the
\* page can reach: whenever runStep calls it, some sentence of the corpus
\* has at least two tokens, so that the random choice of sentences comes
\* to one from which a non-empty prefix and its next token are returned.
C25_TrainingPairExists ==
  CallsGetTrainingPair => CanPair(model)

\* 0 <= iteration <= maxIterations and one loss per iteration
Counted(progress, maxIterations) ==
  /\ progress.iteration \in 0..maxIterations
  /\ Len(progress.lossHistory) = progress.iteration

\* C26: in the training loop, after any Step, Play, Pause, speed change,
\* Reset and timer tick, 0 <= iteration <= maxIterations and lossHistory
\* has exactly iteration entries, in the component state and in the
\* trainingProgress of the store; Reset returns both to 0 and the empty list.
C26_IterationCountsLosses ==
  /\ [](/\ Counted(model.trainingProgress, model.trainingProgress.maxIterations)
        /\ Training => Counted(page.train, model.trainingProgress.maxIterations))
  /\ [][TrainingReset =>
          /\ page'.train.iteration = 0
          /\ page'.train.lossHistory = <<>>
          /\ model'.trainingProgress.iteration = 0
          /\ model'.trainingProgress.lossHistory = <<>>]_vars

\* The loop has stepped to maxIterations at another speed than the first
C26_Witness ==
  /\ Training
  /\ page.train.speed # 1
  /\ page.train.iteration = model.trainingProgress.maxIterations
  /\ Len(page.train.lossHistory) = MaxIterations
  /\ model.trainingProgress.lossHistory = page.train.lossHistory

\* C27: once Play is pressed with weights initialized and iteration <
\* maxIterations, and the user neither pauses nor resets (which alone,
\* besides completion, end isPlaying), training eventually reaches
\* iteration = maxIterations; there isPlaying is false and the status is
\* 'completed'.
C27_PlayReachesMaxIterations ==
  /\ (page.train.isPlaying /\ weights # Null /\ ~isComplete)
       ~> (~page.train.isPlaying)
  /\ [](isComplete => ~page.train.isPlaying /\ model.status = "completed")

\* C28: in the four-stage wizard the stage is always in 1..4; it grows
\* only by one, through the completion callback of the stage on screen;
\* a click on a stage indicator leads only to a stage not above the
\* current one.
C28_StagesInOrder ==
  /\ [](model.stage \in 1..4)
  /\ [][page.view = "wizard" =>
          /\ model'.stage > model.stage =>
               (model'.stage = model.stage + 1 /\ Continue)
          /\ (\E stage \in 1..4 : handleStageClick(stage)) =>
               model'.stage <= model.stage]_vars

\* The wizard is back at stage 1 with weights that the reset button of
\* stage 4 has built
C28_Witness ==
  /\ page.view = "wizard"
  /\ model.stage = 1
  /\ model.weights # Null
  /\ model.weights.layers > 0

Mutators ==
  {"setStage", "setVocabulary", "setWeights", "updateTrainingProgress", "setStatus"}

\* C29: once the store has a model, every mutator leaves the model
\* persisted under 'llm-model' equal to the in-memory model, so that a
\* later loadModel restores exactly that state; while the model is null a
\* mutator changes neither memory nor storage; after resetModel storage
\* holds no saved model and the in-memory model is the initial model.
C29_PersistedIsInMemory ==
  /\ []((call.op \in Mutators /\ model # Null) =>
          /\ localStorage # NoItem
          /\ storageGet(localStorage) = model
          /\ loadModel(localStorage) = model)
  /\ [][(model = Null /\ call'.op \in Mutators) =>
          (model' = Null /\ localStorage' = localStorage)]_vars
  /\ [](call.op = "resetModel" =>
          (localStorage = NoItem /\ model = createInitialModel))

\* updateTrainingProgress has merged a partial progress into a model that
\* earlier mutators had changed
C29_Witness ==
  /\ call.op = "updateTrainingProgress"
  /\ model # Null
  /\ model.stage = 4
  /\ model.status = "training"
  /\ model.weights # Null
  /\ model.trainingProgress.iteration = 1
  /\ model.trainingProgress.lossHistory = <<One>>

\* runStep gets past getTrainingPair and calls trainStep (the wizard calls
\* forward first) with the weights of the component
InvokesTrainStep ==
  CallsGetTrainingPair /\ CanPair(model)

\* C30: whenever the training loop invokes forward or trainStep, the
\* weights it passes are those of initializeWeights for the config and
\* the vocabulary of the store: config.numLayers layers of config.numHeads
\* heads each, and an output layer with one bias entry per word.
C30_TrainsOnInitializedWeights ==
  InvokesTrainStep =>
    /\ page.train.weights.layers = model.config.numLayers
    /\ model.config.numLayers > 0 => page.train.weights.layer.heads = model.config.numHeads
    /\ page.train.weights.b = Len(model.vocabulary)
    /\ page.train.weights = WeightsShape(Len(model.vocabulary), model.config)

====
